---- MODULE Spec2Model ----
(***************************************************************************)
(* Verification model of the facial-landmark / viseme lip-warping core:    *)
(* warp.py (LipWarping) and landmarks.py (FacialLandmarks).                 *)
(*                                                                         *)
(* Numbers.  The viseme shape table holds decimals with one fractional     *)
(* digit; the model keeps them in tenths (0.8 is 8, 1.2 is 12).  Pixel      *)
(* coordinates produced by the landmark-guided transform are rationals,    *)
(* kept as reduced pairs <<numerator, denominator>>; float32 rounding of   *)
(* the numpy arithmetic is not modelled.  An image is identified by its    *)
(* file and its shape; a frame is identified by the image it was warped    *)
(* from and the point correspondences of the transform applied to it.      *)
(***************************************************************************)
EXTENDS Integers, Sequences, FiniteSets, TLC

VARIABLES
    viseme_shapes,    \* LipWarping.viseme_shapes of each instance (NoTable: not constructed)
    _warping,         \* the module-level global instance of warp.py
    call,             \* arguments of the warp_lips call whose result is held
    frames,           \* the list warp_lips returned
    prev_frames,      \* what the preceding call with the same arguments returned,
                      \* and whether other operations ran between the two calls
    ops_since_call,   \* whether another operation ran since the last warp_lips call
    errors,           \* logger.error records written by the last warp_lips call
    sequence,         \* the list create_viseme_sequence last returned
    info,             \* the dict get_viseme_info last returned
    raised,           \* whether the last operation left with an exception
    saved,            \* the list save_frames last returned
    video,            \* the value create_video last returned
    disk              \* the files save_frames and create_video have written

\* What the caller's disk and the results of save_frames / create_video hold.
io_vars == <<saved, video, disk>>

warp_vars ==
    <<viseme_shapes, _warping, call, frames, prev_frames, ops_since_call, errors,
      sequence, info, raised, io_vars>>

VARIABLES
    MEDIAPIPE_AVAILABLE,  \* whether "import mediapipe" succeeded
    face_mesh,            \* FacialLandmarks.face_mesh (Unbuilt before __init__ ran)
    max_num_faces,        \* FacialLandmarks.max_num_faces
    mesh_initialized,     \* whether __init__ logged "MediaPipe face mesh initialized"
    detect_calls,         \* detection calls made on the detector so far
    detected              \* the last detection call: operation, argument, outcome

detect_vars ==
    <<MEDIAPIPE_AVAILABLE, face_mesh, max_num_faces, mesh_initialized, detect_calls,
      detected>>

VARIABLES
    raw_count,            \* landmarks in the face handed to _extract_landmarks
    shape_arg,            \* the image_shape handed to _extract_landmarks
    extracted             \* the dict _extract_landmarks returned

extract_vars == <<raw_count, shape_arg, extracted>>

VARIABLES
    lip_input,            \* the point list handed to calculate_lip_openness
    lip_openness          \* the value calculate_lip_openness returned

openness_vars == <<lip_input, lip_openness>>

VARIABLES
    _landmark_detector,   \* the module-level global instance of landmarks.py
    thread_pc,            \* where each thread stands in get_landmark_detector / get_warping
    thread_new,           \* the instance a thread constructed and has not yet assigned
    built,                \* the instances each getter has constructed
    returned              \* the instances each getter has returned to a caller

thread_vars == <<_landmark_detector, thread_pc, thread_new, built, returned>>

VARIABLES
    listening,            \* the ports of localhost on which a connection succeeds
    os_port,              \* what binding port 0 yields: a free port, or None (it fails)
    cwd_writable,         \* whether files of the working directory can be written
    config_file,          \* config.json: absent, not parseable, or its JSON value
    port_file,            \* the file .port: whether it exists, and its text
    port_call,            \* the last PortManager call: operation, argument, outcome
    created               \* the port of the last create_port_file that wrote the
                          \* file, None when none did or the file was cleaned up since

port_vars ==
    <<listening, os_port, cwd_writable, config_file, port_file, port_call, created>>

VARIABLES
    viseme_arg,           \* the table viseme whose parameters _apply_viseme_transform gets
    points_arg,           \* the point rows _apply_viseme_transform gets
    transformed_points    \* the rows _apply_viseme_transform returned

transform_vars == <<viseme_arg, points_arg, transformed_points>>

VARIABLES
    sequence_call,        \* the last create_viseme_sequence call on its own: arguments, outcome
    bounds_call,          \* the last get_face_bounds call: argument, outcome
    serial_call,          \* the last save_frames / create_video call: arguments, outcome
    video_call            \* the last detect_landmarks_video call: argument, outcome

call_vars == <<sequence_call, bounds_call, serial_call, video_call>>

VARIABLES
    max_session_history,  \* MemoryManager.max_session_history
    session_memory,       \* the rows of the table session_memory, in rowid order
    id_sequence,          \* the last id AUTOINCREMENT handed out
    now,                  \* the second CURRENT_TIMESTAMP reads
    added                 \* the ids add_to_session handed out since the table was
                          \* last empty, oldest first

session_vars == <<max_session_history, session_memory, id_sequence, now, added>>

VARIABLES
    app_state,            \* app.py: not imported, imported, or serving requests
    app_config,           \* the module-level dict config of app.py
    backend_port,         \* the port app.run was started on
    served                \* the body of the last /get_config response

app_vars == <<app_state, app_config, backend_port, served>>

\* The components beside the warp engine and the landmark extractor.
more_vars == <<thread_vars, port_vars, transform_vars>>

\* The components of the single calls, the session memory and the backend.
rest_vars == <<call_vars, session_vars, app_vars>>

\* The warp engine, the landmark extractor, the getters, PortManager.
base_vars == <<warp_vars, detect_vars, extract_vars, openness_vars, more_vars>>

vars == <<base_vars, rest_vars>>

\* What the operations of one component leave alone.
not_warp == <<detect_vars, extract_vars, openness_vars, more_vars, rest_vars>>
not_detect == <<warp_vars, extract_vars, openness_vars, more_vars, rest_vars>>
not_extract == <<warp_vars, detect_vars, openness_vars, more_vars, rest_vars>>
not_openness == <<warp_vars, detect_vars, extract_vars, more_vars, rest_vars>>

-----------------------------------------------------------------------------
(* Bounds of the model *)

MaxVisemes == 2       \* longest viseme sequence passed to warp_lips
MaxRepeat == 1        \* longest viseme sequence of a repeated warp_lips call
MaxLipPoints == 5     \* longest hand-made two-dimensional lip point list
MaxLandmarks == 478   \* longest landmark list a face is reported with
MaxDetectCalls == 3   \* detection calls made on one detector
MaxLipList == 13      \* longest point list passed to calculate_lip_openness
MaxThreads == 2       \* threads that call a global getter concurrently

-----------------------------------------------------------------------------
(* Values *)

None == "None"
NoTable == [unset |-> TRUE]
NoCall == [self |-> None]
NoFrames == <<[kind |-> "nothing"]>>
NoPrev == [frames |-> NoFrames, between |-> FALSE]
NoSingleCall == [op |-> None]

\* A function body's outcome: it returned value, or an exception left it.
Ret(value) == [raised |-> FALSE, value |-> value]
Raise == [raised |-> TRUE, value |-> <<>>]

\* Mutant: no except branch around the body.
NoExcept(outcome, fallback) == outcome

\* try: <body> except Exception: log and return fallback
Except(outcome, fallback) == IF outcome.raised THEN Ret(fallback) ELSE outcome

\* A viseme element that is not a str (None, 5, ...): it has no .upper().
NonStr == "<non-str>"

\* str.upper() on the characters the model uses.
UpperOf ==
    [a |-> "A", b |-> "B", d |-> "D", e |-> "E", f |-> "F", g |-> "G",
     h |-> "H", i |-> "I", k |-> "K", l |-> "L", m |-> "M", n |-> "N",
     o |-> "O", p |-> "P", r |-> "R", s |-> "S", t |-> "T", u |-> "U",
     w |-> "W", y |-> "Y", c |-> "C", j |-> "J", q |-> "Q", v |-> "V",
     x |-> "X", z |-> "Z"]

Upper(s) == IF s \in DOMAIN UpperOf THEN UpperOf[s] ELSE s

Shape(openness, width, height) ==
    [lip_openness |-> openness, lip_width |-> width, lip_height |-> height]

\* _load_viseme_shapes: every value in tenths.
LoadVisemeShapes ==
    [A |-> Shape(8, 12, 15), E |-> Shape(4, 11, 12), I |-> Shape(3, 13, 11),
     O |-> Shape(6, 9, 13),  U |-> Shape(2, 8, 14),  F |-> Shape(1, 10, 10),
     M |-> Shape(0, 10, 10), B |-> Shape(3, 10, 11), P |-> Shape(1, 7, 12),
     R |-> Shape(5, 8, 13),  S |-> Shape(2, 11, 10), T |-> Shape(4, 10, 11),
     D |-> Shape(3, 10, 10), L |-> Shape(4, 12, 11), N |-> Shape(2, 10, 10),
     G |-> Shape(5, 10, 12), K |-> Shape(4, 10, 11), H |-> Shape(6, 11, 13),
     W |-> Shape(3, 8, 12),  Y |-> Shape(4, 11, 11)]

-----------------------------------------------------------------------------
(* Rational arithmetic *)

Abs(x) == IF x < 0 THEN -x ELSE x

RECURSIVE GCD(_, _)
GCD(a, b) == IF b = 0 THEN a ELSE GCD(b, a % b)

\* num/den with den > 0, reduced.
Rat(num, den) ==
    LET g == GCD(Abs(num), den) IN <<num \div g, den \div g>>

RECURSIVE SumCoord(_, _, _)
SumCoord(points, c, k) ==
    IF k = 0 THEN 0 ELSE points[k][c] + SumCoord(points, c, k - 1)

\* An integer point list as float coordinates (np.array(..., dtype=np.float32)).
AsFloat(points) ==
    [k \in 1..Len(points) |-> [c \in 1..Len(points[k]) |-> Rat(points[k][c], 1)]]

\* Mutant: the last k rows, s[-k:].
TakeLast(s, k) == SubSeq(s, IF Len(s) < k THEN 1 ELSE Len(s) - k + 1, Len(s))

\* s[:k]
Take(s, k) == SubSeq(s, 1, IF Len(s) < k THEN Len(s) ELSE k)

\* The common row length of a point list, 0 when the rows differ (or there are none).
Columns(points) ==
    IF Len(points) > 0 /\ \A k \in 1..Len(points) : Len(points[k]) = Len(points[1])
    THEN Len(points[1]) ELSE 0

-----------------------------------------------------------------------------
(* Frames *)

\* Mutant: an except branch that returns a blank image of the same shape.
BlankFrame(image) ==
    [kind |-> "blank", image |-> image.path, width |-> image.width,
     height |-> image.height, src |-> <<>>, dst |-> <<>>, buf |-> "new"]

\* The loaded image itself, returned by the except branches ("return image").
SourceFrame(image) ==
    [kind |-> "source", image |-> image.path, width |-> image.width,
     height |-> image.height, src |-> <<>>, dst |-> <<>>, buf |-> "image"]

\* Mutant: dsize given as (rows, columns), that is (height, width).
WarpPerspectiveSwapped(image, src, dst, dsize) ==
    [kind |-> "perspective", image |-> image.path, width |-> dsize[2],
     height |-> dsize[1], src |-> src, dst |-> dst, buf |-> "new"]

\* cv2.warpPerspective(image, M, dsize) with M = getPerspectiveTransform(src, dst).
WarpPerspective(image, src, dst, dsize) ==
    [kind |-> "perspective", image |-> image.path, width |-> dsize[1],
     height |-> dsize[2], src |-> src, dst |-> dst, buf |-> "new"]

\* cv2.warpAffine(image, M, dsize) with M = getAffineTransform(src, dst).
WarpAffine(image, src, dst, dsize) ==
    [kind |-> "affine", image |-> image.path, width |-> dsize[1],
     height |-> dsize[2], src |-> src, dst |-> dst, buf |-> "new"]

\* The pixel content of a frame: a transform whose points do not move is the
\* identity, so its output has the pixels of the image.
Pixels(frame) ==
    IF frame.kind = "source"
       \/ (frame.kind \in {"perspective", "affine"} /\ frame.src = frame.dst)
    THEN [image |-> frame.image, width |-> frame.width, height |-> frame.height,
          transform |-> "identity", src |-> <<>>, dst |-> <<>>]
    ELSE [image |-> frame.image, width |-> frame.width, height |-> frame.height,
          transform |-> frame.kind, src |-> frame.src, dst |-> frame.dst]

PixelsOf(fs) == [k \in 1..Len(fs) |-> Pixels(fs[k])]

\* What a step of the warp yields: the frame, and the functions whose except
\* branch wrote a logger.error record on the way.
Out(frame, errs) == [frame |-> frame, errs |-> errs]

-----------------------------------------------------------------------------
(* LipWarping._warp_default_region *)

Corners(cx, cy, w, h) ==
    AsFloat(<< <<cx - w \div 2, cy - h \div 2>>, <<cx + w \div 2, cy - h \div 2>>,
               <<cx + w \div 2, cy + h \div 2>>, <<cx - w \div 2, cy + h \div 2>> >>)

\* Mutant: no height boost for open visemes.
BoostHeightNever(warped_height, openness) == warped_height

\* int(warped_height * (1 + openness)) when openness > 0.5
BoostHeight(warped_height, openness) ==
    IF openness > 5 THEN (warped_height * (10 + openness)) \div 10 ELSE warped_height

WarpDefaultRegion(image, viseme_params) ==
    LET height == image.height
        width == image.width
        lip_center_x == width \div 2
        lip_center_y == height \div 2 + height \div 4
        lip_width == width \div 6
        lip_height == height \div 8
        openness == viseme_params.lip_openness
        width_factor == viseme_params.lip_width
        height_factor == viseme_params.lip_height
        src_points == Corners(lip_center_x, lip_center_y, lip_width, lip_height)
        warped_width == (lip_width * width_factor) \div 10
        warped_height == BoostHeight((lip_height * height_factor) \div 10, openness)
        dst_points == Corners(lip_center_x, lip_center_y, warped_width, warped_height)
    IN  Out(WarpPerspective(image, src_points, dst_points, <<width, height>>), <<>>)

-----------------------------------------------------------------------------
(* LipWarping._apply_viseme_transform *)

\* One pass of the loop body for point p of n points whose coordinate sums
\* are sx and sy (center_x = sx / n, center_y = sy / n).
ScalePoint(p, n, sx, sy, viseme_params) ==
    LET openness == viseme_params.lip_openness
        width_factor == viseme_params.lip_width
        height_factor == viseme_params.lip_height
        x == Rat(10 * sx + (n * p[1] - sx) * width_factor, 10 * n)
        y == IF openness > 5
             THEN Rat(100 * sy + (n * p[2] - sy) * height_factor * (10 + openness),
                      100 * n)
             ELSE Rat(200 * sy + (n * p[2] - sy) * height_factor * (20 - openness),
                      200 * n)
    IN  <<x, y>>

\* points: the rows of the float array.  Rows that are not (x, y) pairs make
\* "x, y = transformed_points[i]" (or points[:, 1]) raise, and the except
\* branch returns the points as they came.
ApplyVisemeTransform(points, viseme_params) ==
    IF Columns(points) # 2
    THEN [points |-> AsFloat(points), errs |-> <<"_apply_viseme_transform">>]
    ELSE LET n == Len(points)
             sx == SumCoord(points, 1, n)
             sy == SumCoord(points, 2, n)
         IN  [points |-> [k \in 1..n |-> ScalePoint(points[k], n, sx, sy, viseme_params)],
              errs |-> <<>>]

-----------------------------------------------------------------------------
(* LipWarping._warp_with_landmarks *)

\* dict.get('lip_landmarks', {}).get('all_lip', [])
AllLip(face) ==
    IF "lip_landmarks" \in DOMAIN face
    THEN IF "all_lip" \in DOMAIN face.lip_landmarks
         THEN face.lip_landmarks.all_lip ELSE <<>>
    ELSE <<>>

\* cv2.getPerspectiveTransform asserts 4 rows of 2 floats on both sides.
PerspectiveArgsOk(src, dst) ==
    /\ Len(src) = 4 /\ Columns(src) = 2
    /\ Len(dst) = 4 /\ Columns(dst) = 2

\* cv2.getAffineTransform asserts 3 rows of 2 floats on both sides.
AffineArgsOk(src, dst) ==
    /\ Len(src) = 3 /\ Columns(src) = 2
    /\ Len(dst) = 3 /\ Columns(dst) = 2

WarpWithLandmarks(image, viseme_params, face) ==
    LET all_lip == AllLip(face)
        dsize == <<image.width, image.height>>
    IN  IF Len(all_lip) = 0
        THEN WarpDefaultRegion(image, viseme_params)
        ELSE IF Columns(all_lip) = 0
        THEN Out(SourceFrame(image), <<"_warp_with_landmarks">>)  \* ragged rows: np.array raises
        ELSE LET lip_points == AsFloat(all_lip)
                 t == ApplyVisemeTransform(all_lip, viseme_params)
                 src == IF Len(lip_points) >= 4 THEN Take(lip_points, 4)
                                                ELSE Take(lip_points, 3)
                 dst == IF Len(lip_points) >= 4 THEN Take(t.points, 4)
                                                ELSE Take(t.points, 3)
             IN  IF Len(lip_points) >= 4
                 THEN IF PerspectiveArgsOk(src, dst)
                      THEN Out(WarpPerspective(image, src, dst, dsize), t.errs)
                      ELSE Out(SourceFrame(image), t.errs \o <<"_warp_with_landmarks">>)
                 ELSE IF AffineArgsOk(src, dst)
                      THEN Out(WarpAffine(image, src, dst, dsize), t.errs)
                      ELSE Out(SourceFrame(image), t.errs \o <<"_warp_with_landmarks">>)

-----------------------------------------------------------------------------
(* LipWarping._warp_frame and LipWarping.warp_lips *)

\* Mutant: the lookup without .upper().
VisemeParamsNoUpper(shapes, viseme) ==
    IF viseme \in DOMAIN shapes THEN shapes[viseme] ELSE shapes["A"]

\* self.viseme_shapes.get(viseme.upper(), self.viseme_shapes['A'])
VisemeParams(shapes, viseme) ==
    IF Upper(viseme) \in DOMAIN shapes THEN shapes[Upper(viseme)] ELSE shapes["A"]

\* "landmarks and len(landmarks) > 0"
HasLandmarks(landmarks) == landmarks.given /\ Len(landmarks.faces) > 0

\* Mutant: the warp is guided by the last face, landmarks[-1].
WarpFrameLastFace(shapes, image, viseme, landmarks) ==
    IF viseme = NonStr
    THEN Out(SourceFrame(image), <<"_warp_frame">>)
    ELSE LET viseme_params == VisemeParams(shapes, viseme)
         IN  IF HasLandmarks(landmarks)
             THEN WarpWithLandmarks(image, viseme_params,
                                    landmarks.faces[Len(landmarks.faces)])
             ELSE WarpDefaultRegion(image, viseme_params)

WarpFrame(shapes, image, viseme, landmarks) ==
    IF viseme = NonStr
    THEN Out(SourceFrame(image), <<"_warp_frame">>)     \* viseme.upper() raises
    ELSE LET viseme_params == VisemeParams(shapes, viseme)
         IN  IF HasLandmarks(landmarks)
             THEN WarpWithLandmarks(image, viseme_params, landmarks.faces[1])
             ELSE WarpDefaultRegion(image, viseme_params)

\* The logger.error records of one frame: which frame, and which function.
LogFor(index, errs) == [j \in 1..Len(errs) |-> [frame |-> index, at |-> errs[j]]]

\* Mutant: frames.insert(0, warped_frame) in place of frames.append.
RECURSIVE WarpLoopPrepend(_, _, _, _, _)
WarpLoopPrepend(shapes, image, visemes, landmarks, acc) ==
    IF visemes = <<>> THEN acc
    ELSE LET o == WarpFrame(shapes, image, Head(visemes), landmarks)
         IN  WarpLoopPrepend(shapes, image, Tail(visemes), landmarks,
                             [frames |-> <<o.frame>> \o acc.frames,
                              errs |-> acc.errs \o LogFor(Len(acc.frames) + 1, o.errs)])

\* The for loop of warp_lips: acc holds the frames appended so far.
RECURSIVE WarpLoop(_, _, _, _, _)
WarpLoop(shapes, image, visemes, landmarks, acc) ==
    IF visemes = <<>> THEN acc
    ELSE LET o == WarpFrame(shapes, image, Head(visemes), landmarks)
         IN  WarpLoop(shapes, image, Tail(visemes), landmarks,
                      [frames |-> Append(acc.frames, o.frame),
                       errs |-> acc.errs \o LogFor(Len(acc.frames) + 1, o.errs)])

\* Mutant: no "if image is None" after cv2.imread.
WarpLipsResultNoDecodeCheck(shapes, image, visemes, landmarks) ==
    IF ~image.exists
    THEN [frames |-> <<>>, errs |-> LogFor(0, <<"warp_lips">>)]
    ELSE WarpLoop(shapes, image, visemes, landmarks, [frames |-> <<>>, errs |-> <<>>])

WarpLipsResult(shapes, image, visemes, landmarks) ==
    IF ~image.exists \/ ~image.decodable
    THEN [frames |-> <<>>, errs |-> LogFor(0, <<"warp_lips">>)]
    ELSE WarpLoop(shapes, image, visemes, landmarks, [frames |-> <<>>, errs |-> <<>>])

-----------------------------------------------------------------------------
(* FacialLandmarks: group extraction (landmarks.py) *)

lip_indices ==
    <<61, 84, 17, 314, 405, 320, 307, 375, 321, 308, 324, 318, 78, 95, 88, 178,
      87, 14, 317, 402, 318, 324, 308>>

left_eye_indices ==
    <<362, 382, 381, 380, 374, 373, 390, 249, 263, 466, 388, 387, 386, 385, 384, 398>>

right_eye_indices ==
    <<33, 7, 163, 144, 145, 153, 154, 155, 133, 173, 157, 158, 159, 160, 161, 246>>

left_eyebrow_indices ==
    <<276, 283, 282, 295, 285, 300, 293, 334, 296, 336, 285, 417, 465, 357, 460,
      469, 454, 447, 377>>

right_eyebrow_indices ==
    <<70, 63, 105, 66, 107, 55, 65, 52, 53, 46, 124, 35, 111, 143, 112, 145, 116,
      117, 119>>

\* Mutant: the filter off by one, "if i <= len(landmarks)".
InRangeInclusive(i, n) == i <= n

\* The filter of the comprehensions: "if i < len(landmarks)".
InRange(i, n) == i < n

\* Mutant: the comprehension without its filter, [landmarks[i] for i in indices].
PickLandmarksUnfiltered(landmarks, indices) ==
    LET n == Len(landmarks)
    IN  IF \E k \in 1..Len(indices) : indices[k] >= n
        THEN [ok |-> FALSE, items |-> <<>>]
        ELSE [ok |-> TRUE, items |-> [k \in 1..Len(indices) |-> landmarks[indices[k] + 1]]]

\* [landmarks[i] for i in indices if i < len(landmarks)]; landmarks[i] raises
\* IndexError for i >= len(landmarks) (ok is then FALSE).
PickLandmarks(landmarks, indices) ==
    LET n == Len(landmarks)
        kept == SelectSeq(indices, LAMBDA i : InRange(i, n))
    IN  IF \E k \in 1..Len(kept) : kept[k] >= n
        THEN [ok |-> FALSE, items |-> <<>>]
        ELSE [ok |-> TRUE, items |-> [k \in 1..Len(kept) |-> landmarks[kept[k] + 1]]]

\* lip_landmarks[12:]
Drop(s, k) == IF Len(s) <= k THEN <<>> ELSE SubSeq(s, k + 1, Len(s))

GetLipLandmarks(landmarks) ==
    LET lip == PickLandmarks(landmarks, lip_indices)
    IN  [ok |-> lip.ok,
         value |-> [upper_lip |-> Take(lip.items, 12),
                    lower_lip |-> Drop(lip.items, 12),
                    all_lip |-> lip.items]]

GetEyeLandmarks(landmarks) ==
    LET left_eye == PickLandmarks(landmarks, left_eye_indices)
        right_eye == PickLandmarks(landmarks, right_eye_indices)
    IN  [ok |-> left_eye.ok /\ right_eye.ok,
         value |-> [left_eye |-> left_eye.items, right_eye |-> right_eye.items,
                    eyes |-> left_eye.items \o right_eye.items]]

GetEyebrowLandmarks(landmarks) ==
    LET left_eyebrow == PickLandmarks(landmarks, left_eyebrow_indices)
        right_eyebrow == PickLandmarks(landmarks, right_eyebrow_indices)
    IN  [ok |-> left_eyebrow.ok /\ right_eyebrow.ok,
         value |-> [left_eyebrow |-> left_eyebrow.items,
                    right_eyebrow |-> right_eyebrow.items,
                    eyebrows |-> left_eyebrow.items \o right_eyebrow.items]]

\* The empty dict {} that _extract_landmarks returns from its except branch.
EmptyDict == <<>>

\* Landmark i (from 0) of the face the model reports: normalised x and y in
\* thousandths of the image side and a relative depth z.  A fixed synthetic
\* face: the mouth area of a frontal portrait.
FaceLandmark(i) ==
    [x |-> 350 + ((i * 37) % 300), y |-> 650 + ((i * 53) % 200), z |-> (i % 7) - 3]

\* face_landmarks.landmark with n landmarks.
FaceLandmarkList(n) == [k \in 1..n |-> FaceLandmark(k - 1)]

\* [int(landmark.x * width), int(landmark.y * height), landmark.z]
ToPixel(landmark, width, height) ==
    <<(landmark.x * width) \div 1000, (landmark.y * height) \div 1000, landmark.z>>

ExtractLandmarks(face_landmarks, image_shape) ==
    LET height == image_shape[1]
        width == image_shape[2]
        landmarks == [k \in 1..Len(face_landmarks) |->
                         ToPixel(face_landmarks[k], width, height)]
        lip_landmarks == GetLipLandmarks(landmarks)
        eye_landmarks == GetEyeLandmarks(landmarks)
        eyebrow_landmarks == GetEyebrowLandmarks(landmarks)
    IN  IF lip_landmarks.ok /\ eye_landmarks.ok /\ eyebrow_landmarks.ok
        THEN [all_landmarks |-> landmarks,
              lip_landmarks |-> lip_landmarks.value,
              eye_landmarks |-> eye_landmarks.value,
              eyebrow_landmarks |-> eyebrow_landmarks.value,
              image_shape |-> <<width, height>>,
              landmark_count |-> Len(landmarks)]
        ELSE EmptyDict

-----------------------------------------------------------------------------
(* LipWarping.create_viseme_sequence and get_viseme_info *)

\* Mutant: a mapping with an entry whose viseme has no shape, 'c': 'C'.
phoneme_to_viseme_with_c ==
    [a |-> "A", e |-> "E", i |-> "I", o |-> "O", u |-> "U", f |-> "F", v |-> "F",
     m |-> "M", b |-> "B", p |-> "P", r |-> "R", s |-> "S", t |-> "T", d |-> "D",
     l |-> "L", n |-> "N", g |-> "G", k |-> "K", h |-> "H", w |-> "W", y |-> "Y",
     c |-> "C"]

phoneme_to_viseme ==
    [a |-> "A", e |-> "E", i |-> "I", o |-> "O", u |-> "U", f |-> "F", v |-> "F",
     m |-> "M", b |-> "B", p |-> "P", r |-> "R", s |-> "S", t |-> "T", d |-> "D",
     l |-> "L", n |-> "N", g |-> "G", k |-> "K", h |-> "H", w |-> "W", y |-> "Y"]

\* str.lower() and str.isalpha() on the characters the model uses.
Lower(c) ==
    IF \E l \in DOMAIN UpperOf : UpperOf[l] = c
    THEN CHOOSE l \in DOMAIN UpperOf : UpperOf[l] = c
    ELSE c

IsAlpha(c) == Lower(c) \in DOMAIN UpperOf

Repeat(x, n) == [k \in 1..n |-> x]

Max(a, b) == IF a >= b THEN a ELSE b

\* Mutant: frame_rate // 10 copies for a letter, without the max(1, ...).
RECURSIVE VisemesOfTextNoMax(_, _)
VisemesOfTextNoMax(text_lower, frame_rate) ==
    IF text_lower = <<>> THEN <<>>
    ELSE LET char == Head(text_lower)
             viseme == IF char \in DOMAIN phoneme_to_viseme
                       THEN phoneme_to_viseme[char] ELSE "A"
         IN  (IF IsAlpha(char)
              THEN Repeat(viseme, frame_rate \div 10)
              ELSE Repeat("A", frame_rate \div 20))
             \o VisemesOfTextNoMax(Tail(text_lower), frame_rate)

RECURSIVE VisemesOfText(_, _)
VisemesOfText(text_lower, frame_rate) ==
    IF text_lower = <<>> THEN <<>>
    ELSE LET char == Head(text_lower)
             viseme == IF char \in DOMAIN phoneme_to_viseme
                       THEN phoneme_to_viseme[char] ELSE "A"
             frames_per_viseme == Max(1, frame_rate \div 10)
         IN  (IF IsAlpha(char)
              THEN Repeat(viseme, frames_per_viseme)
              ELSE Repeat("A", frame_rate \div 20))
             \o VisemesOfText(Tail(text_lower), frame_rate)

\* Argument values of create_viseme_sequence, with their Python type.
PyStr(chars) == [type |-> "str", chars |-> chars]
PyInt(n) == [type |-> "int", n |-> n]
PyFloat(whole) == [type |-> "float", n |-> whole]      \* whole + a fraction
PyNone == [type |-> "NoneType"]

\* The try body: text.lower() needs a str; for each character
\* "frame_rate // 10" needs a number and "[viseme] * count" an int count.
CreateVisemeSequenceBody(text, frame_rate) ==
    IF text.type # "str" THEN Raise
    ELSE IF text.chars = <<>> THEN Ret(<<>>)
    ELSE IF frame_rate.type # "int" THEN Raise
    ELSE Ret(VisemesOfText([k \in 1..Len(text.chars) |-> Lower(text.chars[k])],
                           frame_rate.n))

\* The except branch: return ['A'] * frame_rate
DefaultSequence(frame_rate) ==
    IF frame_rate.type = "int" THEN Ret(Repeat("A", frame_rate.n)) ELSE Raise

CreateVisemeSequenceResult(text, frame_rate) ==
    LET body == CreateVisemeSequenceBody(text, frame_rate)
    IN  IF body.raised THEN DefaultSequence(frame_rate) ELSE body

-----------------------------------------------------------------------------
(* LipWarping.save_frames and LipWarping.create_video *)

\* An element of a frame list is an image array when it is a frame; None is not.
IsArray(f) == "kind" \in DOMAIN f

\* os.path.join(output_dir, f"{base_name}_{i:04d}.png")
FramePath(output_dir, base_name, i) ==
    [dir |-> output_dir.name, file |-> base_name, index |-> i]

\* The for loop of save_frames from list position k on (i = k - 1): cv2.imwrite
\* raises on an element that is no image, and returns False without raising
\* when the file cannot be written; the path is appended either way.
RECURSIVE SaveLoop(_, _, _, _)
SaveLoop(fs, output_dir, k, acc) ==
    IF k > Len(fs) THEN acc
    ELSE IF ~IsArray(fs[k]) THEN [acc EXCEPT !.raised = TRUE]
    ELSE LET filepath == FramePath(output_dir, "frame", k - 1)
         IN  SaveLoop(fs, output_dir, k + 1,
                      [acc EXCEPT !.paths = Append(@, filepath),
                                  !.written = IF output_dir.writable
                                              THEN @ \cup {filepath} ELSE @])

\* save_frames: the list returned and the files written on the way.
SaveFramesResult(fs, output_dir) ==
    IF output_dir.type # "str" \/ ~output_dir.creatable
    THEN [value |-> <<>>, written |-> {}]                \* os.makedirs raises
    ELSE LET r == SaveLoop(fs, output_dir, 1,
                           [paths |-> <<>>, written |-> {}, raised |-> FALSE])
         IN  [value |-> IF r.raised THEN <<>> ELSE r.paths, written |-> r.written]

\* create_video: the value returned and the file written on the way.  The
\* writer opens only on a writable path with a positive rate; writing to a
\* writer that did not open does nothing.
CreateVideoResult(fs, output_path, frame_rate) ==
    LET opened == output_path.writable /\ frame_rate.n > 0
        file == IF opened THEN {[dir |-> output_path.name, file |-> "video", index |-> 0]}
                ELSE {}
    IN  IF fs = <<>> THEN [value |-> FALSE, written |-> {}]
        ELSE IF ~IsArray(fs[1]) THEN [value |-> FALSE, written |-> {}]
        ELSE IF output_path.type # "str" \/ frame_rate.type \notin {"int", "float"}
        THEN [value |-> FALSE, written |-> {}]           \* cv2.VideoWriter raises
        ELSE IF \E k \in 1..Len(fs) : ~IsArray(fs[k])
        THEN [value |-> FALSE, written |-> file]         \* out.write raises
        ELSE [value |-> TRUE, written |-> file]

GetVisemeInfoResult(shapes) ==
    [available_visemes |-> DOMAIN shapes,
     viseme_count |-> Cardinality(DOMAIN shapes),
     default_viseme |-> "A"]

-----------------------------------------------------------------------------
(* Arguments the callers pass *)

Portrait ==
    [path |-> "portrait.png", exists |-> TRUE, decodable |-> TRUE,
     width |-> 400, height |-> 400]

Banner ==
    [path |-> "banner.png", exists |-> TRUE, decodable |-> TRUE,
     width |-> 120, height |-> 96]

MissingFile ==
    [path |-> "missing.png", exists |-> FALSE, decodable |-> FALSE,
     width |-> 0, height |-> 0]

\* A file that exists and that cv2.imread cannot decode.
CorruptFile ==
    [path |-> "corrupt.png", exists |-> TRUE, decodable |-> FALSE,
     width |-> 0, height |-> 0]

ImageFiles == {Portrait, Banner, MissingFile}

UnreadableFiles == {MissingFile, CorruptFile}

Symbols == {"A", "m", "Z", NonStr}

VisemeSeqs == UNION {[1..k -> Symbols] : k \in 0..MaxVisemes}

RepeatSeqs == UNION {[1..k -> Symbols] : k \in 0..MaxRepeat}

\* A hand-made lip contour in (x, y) pairs.
LipPoint(k) == <<170 + 20 * ((k * 2) % 5), 290 + 15 * ((k * k) % 3)>>

LipPoints(n) == [k \in 1..n |-> LipPoint(k)]

FaceWithLip(all_lip) == [lip_landmarks |-> [all_lip |-> all_lip]]

NoLandmarks == [given |-> FALSE, faces |-> <<>>]

Landmarks(faces) == [given |-> TRUE, faces |-> faces]

\* What the landmark extractor returns for an image with one face.
DetectedFace(image) ==
    ExtractLandmarks(FaceLandmarkList(MaxLandmarks), <<image.height, image.width, 3>>)

DetectedPortraitFace == DetectedFace(Portrait)

\* The landmarks arguments, by name: None, [], [{}], the extractor's output,
\* two faces, and one face with n hand-made lip points.
LandmarkArgs ==
    {[name |-> a, n |-> 0] : a \in {"None", "empty", "empty_dict", "detected", "two_faces"}}
    \cup {[name |-> "lip_points", n |-> n] : n \in 1..MaxLipPoints}

LandmarksArg(arg) ==
    CASE arg.name = "None" -> NoLandmarks
      [] arg.name = "empty" -> Landmarks(<<>>)
      [] arg.name = "empty_dict" -> Landmarks(<<EmptyDict>>)
      [] arg.name = "detected" -> Landmarks(<<DetectedPortraitFace>>)
      [] arg.name = "two_faces" ->
            Landmarks(<<FaceWithLip(LipPoints(4)), FaceWithLip(LipPoints(3))>>)
      [] arg.name = "lip_points" -> Landmarks(<<FaceWithLip(LipPoints(arg.n))>>)

\* Every kind of text and frame rate a caller can pass.
AnyTexts == {PyNone, PyStr(<<>>), PyStr(<<"H", "i", "!">>), PyStr(<<"!">>)}

AnyFrameRates == {PyNone, PyInt(0), PyInt(-5), PyInt(30), PyFloat(29)}

\* Output locations: one that can be written, one that exists and takes no
\* files, one that cannot be created, and None.
Location(name, creatable, writable) ==
    [type |-> "str", name |-> name, creatable |-> creatable, writable |-> writable]

OutputLocations ==
    {Location("out", TRUE, TRUE), Location("readonly", TRUE, FALSE),
     Location("forbidden", FALSE, FALSE),
     [type |-> "NoneType", name |-> None, creatable |-> FALSE, writable |-> FALSE]}

\* Frame lists handed to save_frames and create_video: the frames a warp_lips
\* call returned, the empty list, and lists with an element that is no image.
FrameLists ==
    (IF call # NoCall THEN {frames} ELSE {})
        \cup {<<>>, <<PyNone>>, <<SourceFrame(Banner), PyNone>>}

\* Arguments of warp_lips that reach each of its except branches.
FaultyImages == {Banner, MissingFile}

FaultyVisemeSeqs == {<<>>, <<NonStr>>, <<"A", NonStr>>}

FaultyLandmarkArgs == {[name |-> "None", n |-> 0], [name |-> "lip_points", n |-> 2]}

Instances == {"local", "global"}

Texts == {PyStr(<<"H", "i", "!">>)}

FrameRates == {PyInt(30)}

-----------------------------------------------------------------------------
(* The warp engine as a state machine *)

WarpInit ==
    /\ viseme_shapes = [local |-> LoadVisemeShapes, global |-> NoTable]
    /\ _warping = None
    /\ call = NoCall
    /\ frames = NoFrames
    /\ prev_frames = NoPrev
    /\ ops_since_call = FALSE
    /\ errors = <<>>
    /\ sequence = <<>>
    /\ info = EmptyDict
    /\ raised = FALSE
    /\ saved = <<>>
    /\ video = None
    /\ disk = {}

\* get_warping(): the table of the global instance after the call.
ShapesAfterGetWarping ==
    IF _warping = None
    THEN [viseme_shapes EXCEPT !.global = LoadVisemeShapes]
    ELSE viseme_shapes

GetWarping ==
    /\ _warping' = "global"
    /\ viseme_shapes' = ShapesAfterGetWarping
    /\ raised' = FALSE
    /\ UNCHANGED <<call, frames, errors, sequence, info, io_vars>>

\* Mutant: the frame loop scales the looked-up entry of the shape table in
\* place, so the table of the instance is changed by the call.
WarpLipsWritesTable(self, image, visemes, landmarks) ==
    /\ call = NoCall
    /\ viseme_shapes[self] # NoTable
    /\ LET r == WarpLipsResult(viseme_shapes[self], image, visemes, LandmarksArg(landmarks))
       IN  /\ frames' = r.frames
           /\ errors' = r.errs
    /\ call' = [self |-> self, image |-> image, visemes |-> visemes,
                landmarks |-> landmarks]
    /\ prev_frames' = NoPrev
    /\ ops_since_call' = FALSE
    /\ viseme_shapes' = [viseme_shapes EXCEPT ![self].A = Shape(4, 12, 15)]
    /\ raised' = FALSE
    /\ UNCHANGED <<_warping, sequence, info, io_vars, not_warp>>

\* LipWarping.warp_lips on instance self.
WarpLips(self, image, visemes, landmarks) ==
    /\ call = NoCall
    /\ viseme_shapes[self] # NoTable
    /\ LET r == WarpLipsResult(viseme_shapes[self], image, visemes, LandmarksArg(landmarks))
       IN  /\ frames' = r.frames
           /\ errors' = r.errs
    /\ call' = [self |-> self, image |-> image, visemes |-> visemes,
                landmarks |-> landmarks]
    /\ prev_frames' = NoPrev
    /\ ops_since_call' = FALSE
    /\ raised' = FALSE
    /\ UNCHANGED <<viseme_shapes, _warping, sequence, info, io_vars, not_warp>>

\* The module-level warp_lips: get_warping() and then warp_lips on it.
ModuleWarpLips(image, visemes, landmarks) ==
    /\ call = NoCall
    /\ _warping' = "global"
    /\ viseme_shapes' = ShapesAfterGetWarping
    /\ LET r == WarpLipsResult(viseme_shapes'["global"], image, visemes,
                               LandmarksArg(landmarks))
       IN  /\ frames' = r.frames
           /\ errors' = r.errs
    /\ call' = [self |-> "global", image |-> image, visemes |-> visemes,
                landmarks |-> landmarks]
    /\ prev_frames' = NoPrev
    /\ ops_since_call' = FALSE
    /\ raised' = FALSE
    /\ UNCHANGED <<sequence, info, io_vars, not_warp>>

\* The same call again, with the arguments of the call whose result is held.
WarpLipsAgain ==
    /\ call # NoCall
    /\ prev_frames' = [frames |-> frames, between |-> ops_since_call]
    /\ ops_since_call' = FALSE
    /\ LET r == WarpLipsResult(viseme_shapes[call.self], call.image, call.visemes,
                               LandmarksArg(call.landmarks))
       IN  /\ frames' = r.frames
           /\ errors' = r.errs
    /\ raised' = FALSE
    /\ UNCHANGED <<viseme_shapes, _warping, call, sequence, info, io_vars, not_warp>>

\* The caller drops the frames it was given.
DropFrames ==
    /\ call # NoCall
    /\ call' = NoCall
    /\ frames' = NoFrames
    /\ prev_frames' = NoPrev
    /\ ops_since_call' = FALSE
    /\ errors' = <<>>
    /\ UNCHANGED <<viseme_shapes, _warping, sequence, info, raised, io_vars, not_warp>>

CreateVisemeSequence(self, text, frame_rate) ==
    /\ viseme_shapes[self] # NoTable
    /\ LET out == CreateVisemeSequenceResult(text, frame_rate)
       IN  /\ raised' = out.raised
           /\ sequence' = IF out.raised THEN sequence ELSE out.value
    /\ UNCHANGED <<viseme_shapes, _warping, call, frames, errors, info, io_vars>>

GetVisemeInfo(self) ==
    /\ viseme_shapes[self] # NoTable
    /\ info' = GetVisemeInfoResult(viseme_shapes[self])
    /\ raised' = FALSE
    /\ UNCHANGED <<viseme_shapes, _warping, call, frames, errors, sequence, io_vars>>

SaveFrames(self, fs, output_dir) ==
    /\ viseme_shapes[self] # NoTable
    /\ LET r == SaveFramesResult(fs, output_dir)
       IN  /\ saved' = r.value
           /\ disk' = disk \cup r.written
    /\ raised' = FALSE
    /\ UNCHANGED <<viseme_shapes, _warping, call, frames, errors, sequence, info, video>>

CreateVideo(self, fs, output_path, frame_rate) ==
    /\ viseme_shapes[self] # NoTable
    /\ LET r == CreateVideoResult(fs, output_path, frame_rate)
       IN  /\ video' = r.value
           /\ disk' = disk \cup r.written
    /\ raised' = FALSE
    /\ UNCHANGED <<viseme_shapes, _warping, call, frames, errors, sequence, info, saved>>

\* An operation other than warp_lips.  Tracked(op) records that it ran while the
\* frames of a call are held; Plain(op) keeps no record.
Tracked(op) ==
    /\ op
    /\ ops_since_call' = (call # NoCall)
    /\ UNCHANGED <<prev_frames, not_warp>>

Plain(op) ==
    /\ op
    /\ UNCHANGED <<prev_frames, ops_since_call, not_warp>>

WarpNext ==
    \/ Plain(GetWarping)
    \/ Plain(\E self \in Instances, text \in Texts, frame_rate \in FrameRates :
                CreateVisemeSequence(self, text, frame_rate))
    \/ Plain(\E self \in Instances : GetVisemeInfo(self))
    \/ \E self \in Instances, image \in ImageFiles, visemes \in VisemeSeqs,
          landmarks \in LandmarkArgs : WarpLips(self, image, visemes, landmarks)
    \/ \E image \in ImageFiles, visemes \in VisemeSeqs, landmarks \in LandmarkArgs :
          ModuleWarpLips(image, visemes, landmarks)
    \/ DropFrames

\* warp_lips on files that cannot be loaded.
UnreadableNext ==
    \/ Plain(GetWarping)
    \/ \E self \in Instances, image \in UnreadableFiles, visemes \in VisemeSeqs,
          landmarks \in LandmarkArgs : WarpLips(self, image, visemes, landmarks)
    \/ \E image \in UnreadableFiles, visemes \in VisemeSeqs, landmarks \in LandmarkArgs :
          ModuleWarpLips(image, visemes, landmarks)
    \/ DropFrames

\* The public operations of one LipWarping instance with every kind of argument.
PublicNext ==
    \/ Plain(\E text \in AnyTexts, frame_rate \in AnyFrameRates :
                CreateVisemeSequence("local", text, frame_rate))
    \/ Plain(\E fs \in FrameLists, output_dir \in OutputLocations :
                SaveFrames("local", fs, output_dir))
    \/ Plain(\E fs \in FrameLists, output_path \in OutputLocations,
                frame_rate \in AnyFrameRates :
                CreateVideo("local", fs, output_path, frame_rate))
    \/ \E image \in FaultyImages, visemes \in FaultyVisemeSeqs,
          landmarks \in FaultyLandmarkArgs :
          WarpLips("local", image, visemes, landmarks)
    \/ DropFrames

\* The end-to-end scenario: the vowel sequence, and its contiguous parts, warped
\* with no landmarks.
ScenarioVisemes == <<"A", "E", "I", "O", "U", "A">>

ScenarioSeqs ==
    {SubSeq(ScenarioVisemes, i, j) : i \in 1..Len(ScenarioVisemes),
                                     j \in 0..Len(ScenarioVisemes)}

ScenarioImages == {Portrait, Banner}

ScenarioLandmarkArgs == {[name |-> "None", n |-> 0], [name |-> "empty", n |-> 0]}

ScenarioNext ==
    \/ Plain(GetWarping)
    \/ \E self \in Instances, image \in ScenarioImages, visemes \in ScenarioSeqs,
          landmarks \in ScenarioLandmarkArgs : WarpLips(self, image, visemes, landmarks)
    \/ \E image \in ScenarioImages, visemes \in ScenarioSeqs,
          landmarks \in ScenarioLandmarkArgs : ModuleWarpLips(image, visemes, landmarks)
    \/ DropFrames

\* The same operations with the repeated call, on the viseme sequences of
\* RepeatSeqs.
RepeatNext ==
    \/ Tracked(GetWarping)
    \/ Tracked(\E self \in Instances, text \in Texts, frame_rate \in FrameRates :
                  CreateVisemeSequence(self, text, frame_rate))
    \/ Tracked(\E self \in Instances : GetVisemeInfo(self))
    \/ \E self \in Instances, image \in ImageFiles, visemes \in RepeatSeqs,
          landmarks \in LandmarkArgs : WarpLips(self, image, visemes, landmarks)
    \/ \E image \in ImageFiles, visemes \in RepeatSeqs, landmarks \in LandmarkArgs :
          ModuleWarpLips(image, visemes, landmarks)
    \/ WarpLipsAgain
    \/ DropFrames

-----------------------------------------------------------------------------
(* FacialLandmarks: construction and detection (landmarks.py) *)

Unbuilt == "Unbuilt"

Min(a, b) == IF a <= b THEN a ELSE b

\* _init_mediapipe: the face_mesh attribute it leaves (ctor_ok: whether the
\* FaceMesh constructor returned rather than raised).
InitMediapipe(available, ctor_ok) ==
    IF ~available THEN None
    ELSE IF ctor_ok THEN "FaceMesh" ELSE None

\* The body of _process_image.  array.pixels is FALSE for an argument cv2.cvtColor
\* rejects; array.faces is the number of faces in the picture.
ProcessImageBody(mesh, faces_cap, array) ==
    IF mesh = None THEN Ret(<<>>)
    ELSE IF ~array.pixels THEN Raise
    ELSE Ret([k \in 1..Min(array.faces, faces_cap) |->
                ExtractLandmarks(FaceLandmarkList(MaxLandmarks),
                                 <<array.height, array.width, 3>>)])

ProcessImage(mesh, faces_cap, array) ==
    Except(ProcessImageBody(mesh, faces_cap, array), <<>>)

\* cv2.imread of a file that exists and decodes.
Imread(file) ==
    [pixels |-> TRUE, width |-> file.width, height |-> file.height, faces |-> file.faces]

DetectLandmarksResult(mesh, faces_cap, file) ==
    Except(IF ~file.exists THEN Ret(<<>>)
           ELSE IF ~file.decodable THEN Ret(<<>>)
           ELSE ProcessImage(mesh, faces_cap, Imread(file)),
           <<>>)

DetectLandmarksFromArrayResult(mesh, faces_cap, array) ==
    Except(ProcessImage(mesh, faces_cap, array), <<>>)

\* Picture files and arrays the callers pass.
Picture(path, exists, decodable, image, faces) ==
    [path |-> path, exists |-> exists, decodable |-> decodable,
     width |-> image.width, height |-> image.height, faces |-> faces]

PictureFiles ==
    {Picture("missing.png", FALSE, FALSE, MissingFile, 0),
     Picture("corrupt.png", TRUE, FALSE, MissingFile, 0)}
    \cup {Picture(image.path, TRUE, TRUE, image, faces) :
             image \in {Portrait, Banner}, faces \in 0..2}

NotAnArray == [pixels |-> FALSE, width |-> 0, height |-> 0, faces |-> 0]

Arrays ==
    {NotAnArray} \cup {Imread(file) : file \in {f \in PictureFiles : f.decodable}}

NoDetection == [op |-> None]

DetectInit ==
    /\ MEDIAPIPE_AVAILABLE \in BOOLEAN
    /\ face_mesh = Unbuilt
    /\ max_num_faces = 0
    /\ mesh_initialized = FALSE
    /\ detect_calls = 0
    /\ detected = NoDetection

\* FacialLandmarks(max_num_faces=faces_cap)
NewFacialLandmarks(faces_cap, ctor_ok) ==
    /\ face_mesh = Unbuilt
    /\ max_num_faces' = faces_cap
    /\ face_mesh' = InitMediapipe(MEDIAPIPE_AVAILABLE, ctor_ok)
    /\ mesh_initialized' = (face_mesh' # None)
    /\ UNCHANGED <<MEDIAPIPE_AVAILABLE, detect_calls, detected, not_detect>>

DetectLandmarks(file) ==
    /\ face_mesh # Unbuilt
    /\ detect_calls < MaxDetectCalls
    /\ detect_calls' = detect_calls + 1
    /\ detected' = [op |-> "detect_landmarks", arg |-> file,
                    out |-> DetectLandmarksResult(face_mesh, max_num_faces, file)]
    /\ UNCHANGED <<MEDIAPIPE_AVAILABLE, face_mesh, max_num_faces, mesh_initialized,
                   not_detect>>

DetectLandmarksFromArray(array) ==
    /\ face_mesh # Unbuilt
    /\ detect_calls < MaxDetectCalls
    /\ detect_calls' = detect_calls + 1
    /\ detected' = [op |-> "detect_landmarks_from_array", arg |-> array,
                    out |-> DetectLandmarksFromArrayResult(face_mesh, max_num_faces,
                                                           array)]
    /\ UNCHANGED <<MEDIAPIPE_AVAILABLE, face_mesh, max_num_faces, mesh_initialized,
                   not_detect>>

DetectNext ==
    \/ \E faces_cap \in 1..2, ctor_ok \in BOOLEAN : NewFacialLandmarks(faces_cap, ctor_ok)
    \/ \E file \in PictureFiles : DetectLandmarks(file)
    \/ \E array \in Arrays : DetectLandmarksFromArray(array)

-----------------------------------------------------------------------------
(* FacialLandmarks._extract_landmarks on landmark lists of every length *)

NotExtracted == [done |-> FALSE, dict |-> EmptyDict]

ExtractInit ==
    /\ raw_count \in 0..MaxLandmarks
    /\ shape_arg \in {<<image.height, image.width, 3>> : image \in {Portrait, Banner}}
    /\ extracted = NotExtracted

ExtractLandmarksCall ==
    /\ extracted = NotExtracted
    /\ extracted' = [done |-> TRUE,
                     dict |-> ExtractLandmarks(FaceLandmarkList(raw_count), shape_arg)]
    /\ UNCHANGED <<raw_count, shape_arg, not_extract>>

-----------------------------------------------------------------------------
(* FacialLandmarks.calculate_lip_openness *)

max_openness == 50

RatSub(a, b) == Rat(a[1] * b[2] - b[1] * a[2], a[2] * b[2])

RatAbs(a) == <<Abs(a[1]), a[2]>>

RatLeq(a, b) == a[1] * b[2] <= b[1] * a[2]

\* sum(point[1] for point in points) / len(points)
MeanY(points) == Rat(SumCoord(points, 2, Len(points)), Len(points))

\* Mutant: openness / max_openness without the min(..., 1.0).
NormalizedUnclamped(openness) == Rat(openness[1], openness[2] * max_openness)

\* min(openness / max_openness, 1.0)
Normalized(openness) ==
    LET q == Rat(openness[1], openness[2] * max_openness)
    IN  IF RatLeq(q, <<1, 1>>) THEN q ELSE <<1, 1>>

\* The two groups of points calculate_lip_openness averages:
\* landmarks[:6] and landmarks[6:12].
OpennessGroups(landmarks) ==
    [upper_lip |-> SubSeq(landmarks, 1, 6), lower_lip |-> SubSeq(landmarks, 7, 12)]

CalculateLipOpenness(landmarks) ==
    IF Len(landmarks) < 12 THEN <<0, 1>>
    ELSE LET upper_lip == OpennessGroups(landmarks).upper_lip
             lower_lip == OpennessGroups(landmarks).lower_lip
             upper_y == MeanY(upper_lip)
             lower_y == MeanY(lower_lip)
             openness == RatAbs(RatSub(upper_y, lower_y))
         IN  Normalized(openness)

NotComputed == <<0, 0>>

\* Lip points whose y is one of two heights.
LipLists ==
    UNION {[1..k -> {<<200, y, 0>> : y \in {0, 100}}] : k \in 0..MaxLipList}

OpennessInit ==
    /\ lip_input \in LipLists
    /\ lip_openness = NotComputed

CalculateLipOpennessCall ==
    /\ lip_openness = NotComputed
    /\ lip_openness' = CalculateLipOpenness(lip_input)
    /\ UNCHANGED <<lip_input, not_openness>>

\* The module's own usage: calculate_lip_openness on the all_lip list of an
\* extracted face, when that list is not empty.
LipOpennessOfExtracted ==
    /\ extracted.done
    /\ extracted.dict # EmptyDict
    /\ extracted.dict.lip_landmarks.all_lip # <<>>
    /\ lip_openness = NotComputed
    /\ lip_input' = extracted.dict.lip_landmarks.all_lip
    /\ lip_openness' = CalculateLipOpenness(lip_input')
    /\ UNCHANGED <<extract_vars, warp_vars, detect_vars, more_vars, rest_vars>>

UsageNext ==
    \/ ExtractLandmarksCall
    \/ LipOpennessOfExtracted

-----------------------------------------------------------------------------
(* get_landmark_detector and get_warping, called from several threads *)

Threads == 1..MaxThreads

Getters == {"get_landmark_detector", "get_warping"}

\* The module global a getter reads and writes.
GlobalOf(g) == IF g = "get_warping" THEN _warping ELSE _landmark_detector

ThreadInit ==
    /\ _landmark_detector = None
    /\ thread_pc = [g \in Getters |-> [t \in Threads |-> "idle"]]
    /\ thread_new = [g \in Getters |-> [t \in Threads |-> None]]
    /\ built = [g \in Getters |-> {}]
    /\ returned = [g \in Getters |-> {}]

\* What a step of a getter leaves alone.
not_getter ==
    <<call, frames, prev_frames, ops_since_call, errors, sequence, info, raised,
      io_vars, detect_vars, extract_vars, openness_vars, transform_vars, rest_vars>>

\* Thread t, which is in no getter, enters getter g.
GetterCall(g, t) ==
    /\ \A h \in Getters : thread_pc[h][t] = "idle"
    /\ thread_pc' = [thread_pc EXCEPT ![g][t] = "test"]
    /\ UNCHANGED <<_warping, viseme_shapes, _landmark_detector, thread_new, built,
                   returned, not_getter, port_vars>>

\* "if _landmark_detector is None:" / "if _warping is None:"
GetterTest(g, t) ==
    /\ thread_pc[g][t] = "test"
    /\ thread_pc' = [thread_pc EXCEPT
                        ![g][t] = IF GlobalOf(g) = None THEN "construct" ELSE "return"]
    /\ UNCHANGED <<_warping, viseme_shapes, _landmark_detector, thread_new, built,
                   returned, not_getter, port_vars>>

\* FacialLandmarks() / LipWarping(): a new instance, named after its thread.
\* Every LipWarping built this way loads the same table.
GetterConstruct(g, t) ==
    /\ thread_pc[g][t] = "construct"
    /\ thread_new' = [thread_new EXCEPT ![g][t] = ToString(t)]
    /\ built' = [built EXCEPT ![g] = @ \cup {ToString(t)}]
    /\ viseme_shapes' = IF g = "get_warping"
                        THEN [viseme_shapes EXCEPT !.global = LoadVisemeShapes]
                        ELSE viseme_shapes
    /\ thread_pc' = [thread_pc EXCEPT ![g][t] = "assign"]
    /\ UNCHANGED <<_warping, _landmark_detector, returned, not_getter, port_vars>>

\* "_landmark_detector = <the new instance>" / "_warping = <the new instance>"
GetterAssign(g, t) ==
    /\ thread_pc[g][t] = "assign"
    /\ _warping' = IF g = "get_warping" THEN thread_new[g][t] ELSE _warping
    /\ _landmark_detector' = IF g = "get_warping" THEN _landmark_detector
                             ELSE thread_new[g][t]
    /\ thread_new' = [thread_new EXCEPT ![g][t] = None]
    /\ thread_pc' = [thread_pc EXCEPT ![g][t] = "return"]
    /\ UNCHANGED <<viseme_shapes, built, returned, not_getter, port_vars>>

\* "return _landmark_detector" / "return _warping": the global as it is now.
GetterReturn(g, t) ==
    /\ thread_pc[g][t] = "return"
    /\ returned' = [returned EXCEPT ![g] = @ \cup {GlobalOf(g)}]
    /\ thread_pc' = [thread_pc EXCEPT ![g][t] = "idle"]
    /\ UNCHANGED <<_warping, viseme_shapes, _landmark_detector, thread_new, built,
                   not_getter, port_vars>>

ThreadNext ==
    \/ \E g \in Getters, t \in Threads : GetterCall(g, t)
    \/ \E g \in Getters, t \in Threads : GetterTest(g, t)
    \/ \E g \in Getters, t \in Threads : GetterConstruct(g, t)
    \/ \E g \in Getters, t \in Threads : GetterAssign(g, t)
    \/ \E g \in Getters, t \in Threads : GetterReturn(g, t)

-----------------------------------------------------------------------------
(* PortManager (port_manager.py): finding a port *)

default_port == 5000

port_range == <<5000, 5100>>

\* The port numbers a socket address takes; connect_ex raises on any other.
MaxPort == 65535

\* is_port_available: the connection attempt fails (result != 0); an exception
\* of the attempt counts as not available.
IsPortAvailable(port) == port \in 0..MaxPort /\ port \notin listening

\* Mutant: the search goes upward from the port after start_port.
RECURSIVE SearchRangeAboveStart(_, _)
SearchRangeAboveStart(port, start_port) ==
    IF port > port_range[2] THEN PyNone
    ELSE IF port > start_port /\ IsPortAvailable(port) THEN PyInt(port)
    ELSE SearchRangeAboveStart(port + 1, start_port)

\* The for loop of find_available_port from port on: the first available port
\* that is not start_port.
RECURSIVE SearchRange(_, _)
SearchRange(port, start_port) ==
    IF port > port_range[2] THEN PyNone
    ELSE IF port # start_port /\ IsPortAvailable(port) THEN PyInt(port)
    ELSE SearchRange(port + 1, start_port)

\* find_available_port: Ret(port), or Raise for the RuntimeError.
FindAvailablePortResult(arg) ==
    LET start_port == IF arg.type = "NoneType" THEN default_port ELSE arg.n
        in_range == SearchRange(port_range[1], start_port)
    IN  IF IsPortAvailable(start_port) THEN Ret(start_port)
        ELSE IF in_range.type = "int" THEN Ret(in_range.n)
        ELSE IF os_port.type = "int" THEN Ret(os_port.n)
        ELSE Raise

NoPortCall == [op |-> None]

\* Listeners on localhost: none, the first k ports of the range, and a few
\* scattered ones.
ListeningSets ==
    {port_range[1]..(port_range[1] + k - 1) : k \in 0..(port_range[2] - port_range[1] + 1)}
        \cup {{5000, 5002}, {5001}, (port_range[1]..port_range[2]) \ {5050}, {4999, 5000}}

StartPorts ==
    {PyNone, PyInt(4999), PyInt(5000), PyInt(5001), PyInt(5050), PyInt(5100),
     PyInt(5101), PyInt(70000)}

\* A port of the ephemeral range, as the system assigns it.
OsPorts == {PyNone, PyInt(49152)}

FindAvailablePort(start_port) ==
    /\ port_call' = [op |-> "find_available_port", arg |-> start_port,
                     out |-> FindAvailablePortResult(start_port)]
    /\ UNCHANGED <<listening, os_port, cwd_writable, config_file, port_file, created>>
    /\ UNCHANGED <<warp_vars, detect_vars, extract_vars, openness_vars, thread_vars,
                   transform_vars, rest_vars>>

-----------------------------------------------------------------------------
(* PortManager: config.json and the .port file *)

DigitChars == <<"0", "1", "2", "3", "4", "5", "6", "7", "8", "9">>

\* str(n) of an int.
RECURSIVE StrOfNat(_)
StrOfNat(n) ==
    IF n < 10 THEN <<DigitChars[n + 1]>>
    ELSE StrOfNat(n \div 10) \o <<DigitChars[(n % 10) + 1]>>

Str(n) == IF n < 0 THEN <<"-">> \o StrOfNat(-n) ELSE StrOfNat(n)

IsDigits(text) ==
    Len(text) > 0 /\ \A k \in 1..Len(text) : \E d \in 1..10 : DigitChars[d] = text[k]

RECURSIVE NatOf(_, _)
NatOf(text, acc) ==
    IF text = <<>> THEN acc
    ELSE NatOf(Tail(text),
               10 * acc + (CHOOSE d \in 0..9 : DigitChars[d + 1] = Head(text)))

\* int(text): Ret(n), or Raise for the ValueError.
IntOf(text) ==
    IF IsDigits(text) THEN Ret(NatOf(text, 0))
    ELSE IF Len(text) > 1 /\ text[1] = "-" /\ IsDigits(Tail(text))
    THEN Ret(-NatOf(Tail(text), 0))
    ELSE Raise

NullText == <<"n", "u", "l", "l">>

\* json.dump / json.load of a port value: an int or None.
JsonDump(value) == IF value.type = "int" THEN Str(value.n) ELSE NullText

JsonLoad(text) == IF text = NullText THEN PyNone ELSE PyInt(IntOf(text).value)

\* The states of a file that holds JSON.
AbsentFile == [kind |-> "absent"]
CorruptJson == [kind |-> "corrupt"]                  \* json.load raises
JsonList == [kind |-> "list"]                        \* valid JSON, no object
JsonObject(items) == [kind |-> "object", items |-> items]

\* get_configured_port
GetConfiguredPortResult ==
    IF config_file.kind = "object" /\ "backend_port" \in DOMAIN config_file.items
    THEN JsonLoad(config_file.items["backend_port"])
    ELSE PyInt(default_port)

\* Mutant: the port is stored under the key 'port'.
SavePortToConfigWrongKey(port) ==
    IF config_file.kind \in {"corrupt", "list"} \/ ~cwd_writable
    THEN [value |-> FALSE, file |-> config_file]
    ELSE LET config == IF config_file.kind = "object" THEN config_file.items ELSE <<>>
         IN  [value |-> TRUE,
              file |-> JsonObject([k \in DOMAIN config \cup {"port"} |->
                                     IF k = "port" THEN JsonDump(port) ELSE config[k]])]

\* save_port_to_config: the value returned and config.json afterwards.
SavePortToConfigResult(port) ==
    IF config_file.kind \in {"corrupt", "list"} \/ ~cwd_writable
    THEN [value |-> FALSE, file |-> config_file]
    ELSE LET config == IF config_file.kind = "object" THEN config_file.items ELSE <<>>
         IN  [value |-> TRUE,
              file |-> JsonObject([k \in DOMAIN config \cup {"backend_port"} |->
                                     IF k = "backend_port" THEN JsonDump(port) ELSE config[k]])]

NoPortFile == [exists |-> FALSE, text |-> <<>>]

\* read_port_file
ReadPortFileResult ==
    IF port_file.exists /\ ~IntOf(port_file.text).raised
    THEN PyInt(IntOf(port_file.text).value)
    ELSE PyNone

\* get_backend_url: f"http://localhost:{port}"
Url(port) ==
    [scheme |-> "http", host |-> "localhost",
     port |-> IF port.type = "int" THEN Str(port.n) ELSE <<"N", "o", "n", "e">>]

GetBackendUrlResult(port) ==
    IF port.type # "NoneType" THEN Url(port)
    ELSE IF ReadPortFileResult.type # "NoneType" THEN Url(ReadPortFileResult)
    ELSE Url(GetConfiguredPortResult)

\* What the operations on the files leave alone.
not_port_files ==
    <<listening, os_port, cwd_writable, warp_vars, detect_vars, extract_vars,
      openness_vars, thread_vars, transform_vars, rest_vars>>

GetConfiguredPort ==
    /\ port_call' = [op |-> "get_configured_port", arg |-> PyNone,
                     out |-> GetConfiguredPortResult]
    /\ UNCHANGED <<config_file, port_file, created, not_port_files>>

SavePortToConfig(port) ==
    /\ LET r == SavePortToConfigResult(port)
       IN  /\ config_file' = r.file
           /\ port_call' = [op |-> "save_port_to_config", arg |-> port, out |-> r.value]
    /\ UNCHANGED <<port_file, created, not_port_files>>

CreatePortFile(port) ==
    /\ port_file' = IF cwd_writable THEN [exists |-> TRUE, text |-> Str(port.n)]
                    ELSE port_file
    /\ created' = IF cwd_writable THEN port ELSE created
    /\ port_call' = [op |-> "create_port_file", arg |-> port, out |-> cwd_writable]
    /\ UNCHANGED <<config_file, not_port_files>>

ReadPortFile ==
    /\ port_call' = [op |-> "read_port_file", arg |-> PyNone, out |-> ReadPortFileResult]
    /\ UNCHANGED <<config_file, port_file, created, not_port_files>>

\* Mutant: cleanup_port_file leaves the file where it is.
CleanupPortFileKeepsFile ==
    /\ created' = PyNone
    /\ port_call' = [op |-> "cleanup_port_file", arg |-> PyNone, out |-> PyNone]
    /\ UNCHANGED <<port_file, config_file, not_port_files>>

CleanupPortFile ==
    /\ port_file' = IF port_file.exists /\ cwd_writable THEN NoPortFile ELSE port_file
    /\ created' = PyNone
    /\ port_call' = [op |-> "cleanup_port_file", arg |-> PyNone, out |-> PyNone]
    /\ UNCHANGED <<config_file, not_port_files>>

GetBackendUrl(port) ==
    /\ port_call' = [op |-> "get_backend_url", arg |-> port,
                     out |-> GetBackendUrlResult(port)]
    /\ UNCHANGED <<config_file, port_file, created, not_port_files>>

\* The ports a caller stores.
Ports == {PyInt(5000), PyInt(5007), PyInt(49152)}

\* What config.json holds before the first call.
ConfigContents ==
    {AbsentFile, CorruptJson, JsonList, JsonObject(<<>>),
     JsonObject([backend_port |-> Str(5001)]),
     JsonObject([backend_port |-> NullText]),
     JsonObject([model |-> Str(7)]),
     JsonObject([backend_port |-> Str(5001), model |-> Str(7)])}

PortIdle ==
    /\ listening = {}
    /\ os_port = PyInt(49152)
    /\ cwd_writable = TRUE
    /\ config_file = AbsentFile
    /\ port_file = NoPortFile
    /\ port_call = NoPortCall
    /\ created = PyNone

FindPortInit ==
    /\ listening \in ListeningSets
    /\ os_port \in OsPorts
    /\ cwd_writable = TRUE
    /\ config_file = AbsentFile
    /\ port_file = NoPortFile
    /\ port_call = NoPortCall
    /\ created = PyNone

PortFilesInit ==
    /\ listening = {}
    /\ os_port = PyInt(49152)
    /\ cwd_writable \in BOOLEAN
    /\ config_file \in ConfigContents
    /\ port_file = NoPortFile
    /\ port_call = NoPortCall
    /\ created = PyNone

FindPortNext == \E start_port \in StartPorts : FindAvailablePort(start_port)

PortFilesNext ==
    \/ GetConfiguredPort
    \/ \E port \in Ports : SavePortToConfig(port)
    \/ \E port \in Ports : CreatePortFile(port)
    \/ ReadPortFile
    \/ CleanupPortFile
    \/ \E port \in Ports \cup {PyNone} : GetBackendUrl(port)

-----------------------------------------------------------------------------
(* LipWarping._apply_viseme_transform on its own, for every table viseme *)

NotTransformed == <<>>

TransformIdle ==
    /\ viseme_arg = "A"
    /\ points_arg = <<>>
    /\ transformed_points = NotTransformed

TransformInit ==
    /\ viseme_arg \in DOMAIN LoadVisemeShapes
    /\ points_arg \in {LipPoints(n) : n \in 1..MaxLipPoints}
    /\ transformed_points = NotTransformed

ApplyVisemeTransformCall ==
    /\ transformed_points = NotTransformed
    /\ transformed_points' =
          ApplyVisemeTransform(points_arg, LoadVisemeShapes[viseme_arg]).points
    /\ UNCHANGED <<viseme_arg, points_arg, warp_vars, detect_vars, extract_vars,
                   openness_vars, thread_vars, port_vars, rest_vars>>

TransformNext == ApplyVisemeTransformCall

-----------------------------------------------------------------------------
(* LipWarping.create_viseme_sequence on its own, for every text and frame rate *)

Pangram ==
    <<"t", "h", "e", " ", "q", "u", "i", "c", "k", " ", "b", "r", "o", "w", "n", " ",
      "f", "o", "x", " ", "j", "u", "m", "p", "s", " ", "o", "v", "e", "r", " ",
      "l", "a", "z", "y", " ", "d", "o", "g">>

SequenceTexts ==
    {PyNone, PyStr(<<>>), PyStr(<<"H", "i", "!">>), PyStr(<<"!">>),
     PyStr(<<"Z", "o", "e", " ", "2">>), PyStr(<<"c", "a", "b">>), PyStr(<<"x">>),
     PyStr(<<"Q", "?">>), PyStr(<<"a", " ", "b">>), PyStr(Pangram)}

SequenceFrameRates ==
    {PyNone, PyFloat(29)}
        \cup {PyInt(n) : n \in {-25, -5, 0, 5, 9, 10, 19, 20, 30, 45}}

CreateVisemeSequenceCall(text, frame_rate) ==
    /\ sequence_call' = [op |-> "create_viseme_sequence", text |-> text,
                         frame_rate |-> frame_rate,
                         out |-> CreateVisemeSequenceResult(text, frame_rate)]
    /\ UNCHANGED <<bounds_call, serial_call, video_call, session_vars, app_vars, base_vars>>

SequenceNext ==
    \E text \in SequenceTexts, frame_rate \in SequenceFrameRates :
        CreateVisemeSequenceCall(text, frame_rate)

-----------------------------------------------------------------------------

(* FacialLandmarks.get_face_bounds *)

\* Coordinates of get_face_bounds are kept in halves (3 is 1.5), so that the
\* whole pixel coordinates of the extractor are the even numbers and a list of
\* floats can hold a fraction.
Whole(n) == 2 * n

\* Mutant: the first coordinate in place of the least, x_coords[0].
MinCoordFirst(landmarks, c) == landmarks[1][c]

\* min(x_coords) / min(y_coords)
MinCoord(landmarks, c) ==
    CHOOSE v \in {landmarks[k][c] : k \in 1..Len(landmarks)} :
        \A k \in 1..Len(landmarks) : v <= landmarks[k][c]

\* max(x_coords) / max(y_coords)
MaxCoord(landmarks, c) ==
    CHOOSE v \in {landmarks[k][c] : k \in 1..Len(landmarks)} :
        \A k \in 1..Len(landmarks) : v >= landmarks[k][c]

\* (a + b) // 2: the floor of the midpoint, a whole number.
FloorMid(a, b) == Whole((a + b) \div 4)

\* The try body: a row with fewer than two entries makes landmark[1] raise.
GetFaceBoundsBody(landmarks) ==
    IF landmarks.type = "NoneType" THEN Ret(EmptyDict)
    ELSE IF landmarks.rows = <<>> THEN Ret(EmptyDict)
    ELSE IF \E k \in 1..Len(landmarks.rows) : Len(landmarks.rows[k]) < 2 THEN Raise
    ELSE LET x_min == MinCoord(landmarks.rows, 1)
             x_max == MaxCoord(landmarks.rows, 1)
             y_min == MinCoord(landmarks.rows, 2)
             y_max == MaxCoord(landmarks.rows, 2)
         IN  Ret([x_min |-> x_min, y_min |-> y_min, x_max |-> x_max, y_max |-> y_max,
                  width |-> x_max - x_min, height |-> y_max - y_min,
                  center |-> <<FloorMid(x_min, x_max), FloorMid(y_min, y_max)>>])

GetFaceBoundsResult(landmarks) == Except(GetFaceBoundsBody(landmarks), EmptyDict)

PyList(rows) == [type |-> "list", rows |-> rows]

\* Longest point list handed to get_face_bounds.
MaxBoundsPoints == 2

\* Coordinates in halves: -1.5, -1, 0.5 and 2.
BoundsCoords == {-3, -2, 1, 4}

BoundsPoints == {<<x, y>> : x, y \in BoundsCoords}

\* Point lists of every length, a list of (x, y, z) triples, a list with a row
\* that is no point, and None.
BoundsArgs ==
    {PyList(rows) : rows \in UNION {[1..k -> BoundsPoints] : k \in 0..MaxBoundsPoints}}
        \cup {PyList(<< <<Whole(10), Whole(-4), 1>>, <<Whole(7), Whole(9), -1>> >>),
              PyList(<< <<Whole(10), Whole(4)>>, <<Whole(7)>> >>), PyNone}

\* One call on a detector: the result is a function of the argument alone.
GetFaceBounds(landmarks) ==
    /\ bounds_call = NoSingleCall
    /\ bounds_call' = [op |-> "get_face_bounds", arg |-> landmarks,
                       out |-> GetFaceBoundsResult(landmarks)]
    /\ UNCHANGED <<sequence_call, serial_call, video_call, session_vars, app_vars,
                   base_vars>>

BoundsNext == \E landmarks \in BoundsArgs : GetFaceBounds(landmarks)

-----------------------------------------------------------------------------

(* LipWarping.save_frames and create_video on their own *)

\* The frames of a warp_lips call.
WarpedFrames(visemes) ==
    WarpLipsResult(LoadVisemeShapes, Portrait, visemes, NoLandmarks).frames

\* Frame lists: of warped frames, empty, and with an element that is no image.
SerialFrameLists ==
    {<<>>, WarpedFrames(<<"A">>), WarpedFrames(<<"A", "E">>),
     WarpedFrames(<<"A", "E", "O">>), <<PyNone>>, WarpedFrames(<<"A">>) \o <<PyNone>>}

SaveFramesCall(fs, output_dir) ==
    /\ LET r == SaveFramesResult(fs, output_dir)
       IN  serial_call' = [op |-> "save_frames", frames |-> fs, location |-> output_dir,
                           frame_rate |-> PyNone, out |-> r.value, written |-> r.written]
    /\ UNCHANGED <<sequence_call, bounds_call, video_call, session_vars, app_vars,
                   base_vars>>

CreateVideoCall(fs, output_path, frame_rate) ==
    /\ LET r == CreateVideoResult(fs, output_path, frame_rate)
       IN  serial_call' = [op |-> "create_video", frames |-> fs, location |-> output_path,
                           frame_rate |-> frame_rate, out |-> r.value,
                           written |-> r.written]
    /\ UNCHANGED <<sequence_call, bounds_call, video_call, session_vars, app_vars,
                   base_vars>>

SerialNext ==
    \/ \E fs \in SerialFrameLists, output_dir \in OutputLocations :
          SaveFramesCall(fs, output_dir)
    \/ \E fs \in SerialFrameLists, output_path \in OutputLocations,
          frame_rate \in AnyFrameRates : CreateVideoCall(fs, output_path, frame_rate)

-----------------------------------------------------------------------------

(* FacialLandmarks.detect_landmarks_video *)

\* Longest video handed to detect_landmarks_video, in frames.
MaxVideoFrames == 2

\* A frame cap.read() returns: an image array with so many faces in it.
VideoFrame(image, faces) ==
    [pixels |-> TRUE, width |-> image.width, height |-> image.height, faces |-> faces]

VideoFrames ==
    {VideoFrame(Portrait, faces) : faces \in 0..2} \cup {VideoFrame(Banner, 1)}

Video(path, exists, opens, video_frames) ==
    [path |-> path, exists |-> exists, opens |-> opens, frames |-> video_frames]

\* Video files: missing, not a video, and videos of every length.
VideoFiles ==
    {Video("missing.mp4", FALSE, FALSE, <<>>), Video("notes.txt", TRUE, FALSE, <<>>)}
        \cup {Video("clip.mp4", TRUE, TRUE, fs) :
                 fs \in UNION {[1..k -> VideoFrames] : k \in 0..MaxVideoFrames}}

\* Mutant: 'frame' is the number of entries so far, len(frame_landmarks).
RECURSIVE VideoLoopCountsEntries(_, _, _, _, _)
VideoLoopCountsEntries(mesh, faces_cap, video_frames, frame_count, frame_landmarks) ==
    IF frame_count >= Len(video_frames) THEN frame_landmarks
    ELSE LET landmarks == DetectLandmarksFromArrayResult(mesh, faces_cap,
                              video_frames[frame_count + 1]).value
         IN  VideoLoopCountsEntries(mesh, faces_cap, video_frames, frame_count + 1,
                 IF landmarks # <<>>
                 THEN Append(frame_landmarks, [frame |-> Len(frame_landmarks),
                                               landmarks |-> landmarks[1]])
                 ELSE frame_landmarks)

\* The while loop: cap.read() yields frame number frame_count until the video
\* ends; a frame with landmarks adds an entry with its first face.
RECURSIVE VideoLoop(_, _, _, _, _)
VideoLoop(mesh, faces_cap, video_frames, frame_count, frame_landmarks) ==
    IF frame_count >= Len(video_frames) THEN frame_landmarks
    ELSE LET landmarks == DetectLandmarksFromArrayResult(mesh, faces_cap,
                              video_frames[frame_count + 1]).value
         IN  VideoLoop(mesh, faces_cap, video_frames, frame_count + 1,
                 IF landmarks # <<>>
                 THEN Append(frame_landmarks, [frame |-> frame_count,
                                               landmarks |-> landmarks[1]])
                 ELSE frame_landmarks)

DetectLandmarksVideoResult(mesh, faces_cap, video_file) ==
    Except(IF ~video_file.exists THEN Ret(<<>>)
           ELSE IF ~video_file.opens THEN Ret(<<>>)
           ELSE Ret(VideoLoop(mesh, faces_cap, video_file.frames, 0, <<>>)),
           <<>>)

\* One detect_landmarks_video call on the detector.
DetectLandmarksVideo(video_file) ==
    /\ face_mesh # Unbuilt
    /\ video_call = NoSingleCall
    /\ video_call' = [op |-> "detect_landmarks_video", arg |-> video_file,
                      out |-> DetectLandmarksVideoResult(face_mesh, max_num_faces,
                                                         video_file)]
    /\ UNCHANGED <<sequence_call, bounds_call, serial_call, session_vars, app_vars,
                   base_vars>>

VideoNext ==
    \/ \E faces_cap \in 1..2, ctor_ok \in BOOLEAN : NewFacialLandmarks(faces_cap, ctor_ok)
    \/ \E video_file \in VideoFiles : DetectLandmarksVideo(video_file)

-----------------------------------------------------------------------------

(* MemoryManager: session memory (memory.py) *)

MaxHistory == 2       \* largest max_session_history a manager is built with
MaxAdds == 4          \* add_to_session calls made on one database

\* A row of session_memory: its AUTOINCREMENT id and the second of its
\* CURRENT_TIMESTAMP.  The texts of a turn play no part in what is kept.
Row(id, timestamp) == [id |-> id, timestamp |-> timestamp]

\* Mutant: ORDER BY timestamp DESC.
NewerFirst(r, s) ==
    r.timestamp > s.timestamp \/ (r.timestamp = s.timestamp /\ r.id > s.id)

\* "ORDER BY timestamp ASC", read from the index idx_session_timestamp: rows of
\* one second come in rowid order.
OlderFirst(r, s) ==
    r.timestamp < s.timestamp \/ (r.timestamp = s.timestamp /\ r.id < s.id)

\* "SELECT id ... ORDER BY timestamp ASC LIMIT n"
OldestIds(rows, n) ==
    {rows[k].id : k \in {k \in 1..Len(rows) :
        Cardinality({j \in 1..Len(rows) : OlderFirst(rows[j], rows[k])}) < n}}

\* _cleanup_session_history: the table afterwards.
CleanupSessionHistory(rows, cap) ==
    LET count == Len(rows)
    IN  IF count > cap
        THEN SelectSeq(rows, LAMBDA r : r.id \notin OldestIds(rows, count - cap))
        ELSE rows

\* A database file as an earlier run of the same manager left it.
LeftRows(k) == [i \in 1..k |-> Row(i, 0)]

SessionInit ==
    /\ max_session_history \in 1..MaxHistory
    /\ \E k \in 0..max_session_history :
          /\ session_memory = LeftRows(k)
          /\ id_sequence = k
          /\ added = [i \in 1..k |-> i]
    /\ now = 0

not_session == <<call_vars, app_vars, base_vars>>

\* add_to_session, elapsed seconds after the call before: INSERT, then
\* _cleanup_session_history, then commit.
AddToSession(elapsed) ==
    /\ id_sequence < MaxAdds
    /\ now' = now + elapsed
    /\ id_sequence' = id_sequence + 1
    /\ session_memory' =
          CleanupSessionHistory(Append(session_memory, Row(id_sequence', now')),
                                max_session_history)
    /\ added' = Append(added, id_sequence')
    /\ UNCHANGED <<max_session_history, not_session>>

\* clear_session: DELETE FROM session_memory.
ClearSession ==
    /\ session_memory' = <<>>
    /\ added' = <<>>
    /\ UNCHANGED <<max_session_history, id_sequence, now, not_session>>

SessionNext ==
    \/ \E elapsed \in 0..1 : AddToSession(elapsed)
    \/ ClearSession

-----------------------------------------------------------------------------

(* The Flask backend (app.py): config.json, the port it serves on, /update_config
   and /get_config *)

\* A JSON string and the JSON false, as the text json.dump writes.  The
\* in-memory config holds each value as that text: json.load of json.dump is the
\* value itself for the strings, booleans, ints and nulls the config holds.
JsonString(s) == <<"\"", s, "\"">>
JsonFalse == <<"f", "a", "l", "s", "e">>

\* The dict the FileNotFoundError branch builds and writes.
DefaultConfig ==
    [email_mode |-> JsonString("local"), calendar_mode |-> JsonString("local"),
     financial_api |-> JsonString("yfinance"), enable_3d |-> JsonFalse,
     llm_model |-> JsonString("llama3"), stt_model |-> JsonString("whisper-small"),
     tts_voice |-> JsonString("en_US-amy-medium")]

\* dict.update
DictUpdate(old, new) ==
    [k \in DOMAIN old \cup DOMAIN new |-> IF k \in DOMAIN new THEN new[k] ELSE old[k]]

\* A request without a JSON body: request.get_json() gives None.
NoBody == [kind |-> "none"]

not_app ==
    <<os_port, cwd_writable, port_call, warp_vars, detect_vars, extract_vars,
      openness_vars, thread_vars, transform_vars, call_vars, session_vars>>

\* The module level of app.py: config.json is loaded, or written with the
\* defaults when it is not there; a file that is not JSON ends the import.
ImportApp ==
    /\ app_state = "not imported"
    /\ IF config_file.kind = "absent"
       THEN /\ app_config' = JsonObject(DefaultConfig)
            /\ config_file' = IF cwd_writable THEN JsonObject(DefaultConfig) ELSE config_file
            /\ app_state' = IF cwd_writable THEN "imported" ELSE "failed"
       ELSE /\ app_config' = IF config_file.kind = "corrupt" THEN app_config ELSE config_file
            /\ config_file' = config_file
            /\ app_state' = IF config_file.kind = "corrupt" THEN "failed" ELSE "imported"
    /\ UNCHANGED <<backend_port, served, listening, port_file, created, not_app>>

\* The __main__ block: allocate_port (get_configured_port, find_available_port,
\* save_port_to_config), create_port_file, app.run on the port; sys.exit(1)
\* when no port is found.
Main ==
    /\ app_state = "imported"
    /\ LET found == FindAvailablePortResult(GetConfiguredPortResult)
       IN  IF found.raised
           THEN /\ app_state' = "failed"
                /\ UNCHANGED <<backend_port, config_file, port_file, created, listening>>
           ELSE LET port == PyInt(found.value)
                IN  /\ config_file' = SavePortToConfigResult(port).file
                    /\ port_file' = IF cwd_writable
                                    THEN [exists |-> TRUE, text |-> Str(port.n)]
                                    ELSE port_file
                    /\ created' = IF cwd_writable THEN port ELSE created
                    /\ backend_port' = port
                    /\ listening' = listening \cup {port.n}
                    /\ app_state' = "running"
    /\ UNCHANGED <<app_config, served, not_app>>

\* POST /update_config: 400 without a configuration, else config.update and
\* the whole in-memory config written to config.json; 500 when either raises.
UpdateConfig(new_config) ==
    /\ app_state = "running"
    /\ IF new_config.kind = "none" \/ new_config.items = <<>>
       THEN /\ served' = [op |-> "update_config", status |-> 400]
            /\ UNCHANGED <<app_config, config_file>>
       ELSE IF app_config.kind # "object"
       THEN /\ served' = [op |-> "update_config", status |-> 500]
            /\ UNCHANGED <<app_config, config_file>>
       ELSE /\ app_config' = JsonObject(DictUpdate(app_config.items, new_config.items))
            /\ config_file' = IF cwd_writable THEN app_config' ELSE config_file
            /\ served' = [op |-> "update_config",
                          status |-> IF cwd_writable THEN 200 ELSE 500]
    /\ UNCHANGED <<app_state, backend_port, listening, port_file, created, not_app>>

\* GET /get_config: jsonify(config)
GetConfig ==
    /\ app_state = "running"
    /\ served' = [op |-> "get_config", status |-> 200, out |-> app_config]
    /\ UNCHANGED <<app_state, app_config, backend_port, config_file, listening,
                   port_file, created, not_app>>

\* The bodies of the /update_config requests.
UpdateRequests ==
    {NoBody, JsonObject(<<>>),
     JsonObject([llm_model |-> JsonString("mistral")]),
     JsonObject([backend_port |-> Str(5001)])}

\* Listeners when the backend starts: none, the configured or the default
\* port taken, the whole range taken.
AppListeningSets ==
    {{}, {5000}, {5001}, {5000, 5001}, port_range[1]..port_range[2]}

AppPortInit ==
    /\ listening \in AppListeningSets
    /\ os_port \in OsPorts
    /\ cwd_writable = TRUE
    /\ config_file \in ConfigContents
    /\ port_file = NoPortFile
    /\ port_call = NoPortCall
    /\ created = PyNone

AppNext ==
    \/ ImportApp
    \/ Main
    \/ \E new_config \in UpdateRequests : UpdateConfig(new_config)
    \/ GetConfig

-----------------------------------------------------------------------------

(* The single calls, the session memory and the backend at rest *)

CallIdle ==
    /\ sequence_call = NoSingleCall
    /\ bounds_call = NoSingleCall
    /\ serial_call = NoSingleCall
    /\ video_call = NoSingleCall

SessionIdle ==
    /\ max_session_history = 1
    /\ session_memory = <<>>
    /\ id_sequence = 0
    /\ now = 0
    /\ added = <<>>

AppIdle ==
    /\ app_state = "not imported"
    /\ app_config = [kind |-> "none"]
    /\ backend_port = PyNone
    /\ served = NoSingleCall

RestIdle == CallIdle /\ SessionIdle /\ AppIdle

-----------------------------------------------------------------------------
(* Specifications *)

\* The parts of the state a specification leaves alone.
MoreIdle == ThreadInit /\ PortIdle /\ TransformIdle /\ RestIdle

DetectIdle ==
    /\ MEDIAPIPE_AVAILABLE = TRUE
    /\ face_mesh = Unbuilt
    /\ max_num_faces = 0
    /\ mesh_initialized = FALSE
    /\ detect_calls = 0
    /\ detected = NoDetection

ExtractIdle ==
    /\ raw_count = 0
    /\ shape_arg = <<0, 0, 3>>
    /\ extracted = NotExtracted

OpennessIdle ==
    /\ lip_input = <<>>
    /\ lip_openness = NotComputed

InitWarp == WarpInit /\ DetectIdle /\ ExtractIdle /\ OpennessIdle /\ MoreIdle

InitDetect == WarpInit /\ DetectInit /\ ExtractIdle /\ OpennessIdle /\ MoreIdle

InitExtract == WarpInit /\ DetectIdle /\ ExtractInit /\ OpennessIdle /\ MoreIdle

InitOpenness == WarpInit /\ DetectIdle /\ ExtractIdle /\ OpennessInit /\ MoreIdle

ExtractNext == ExtractLandmarksCall

OpennessNext == CalculateLipOpennessCall

\* The warp engine.
Spec == InitWarp /\ [][WarpNext]_vars

\* The warp engine on files that cannot be loaded.
SpecUnreadable == InitWarp /\ [][UnreadableNext]_vars

\* The public operations with every kind of argument.
SpecPublic == InitWarp /\ [][PublicNext]_vars

\* The global getters under concurrent callers.
SpecThreads == InitWarp /\ [][ThreadNext]_vars

\* PortManager.find_available_port, under every set of listeners.
InitFindPort ==
    WarpInit /\ DetectIdle /\ ExtractIdle /\ OpennessIdle /\ ThreadInit /\ FindPortInit
        /\ TransformIdle /\ RestIdle

SpecFindPort == InitFindPort /\ [][FindPortNext]_vars

\* PortManager's files, from every content of config.json.
InitPortFiles ==
    WarpInit /\ DetectIdle /\ ExtractIdle /\ OpennessIdle /\ ThreadInit /\ PortFilesInit
        /\ TransformIdle /\ RestIdle

SpecPortFiles == InitPortFiles /\ [][PortFilesNext]_vars

\* The viseme transform of a point list, for every viseme of the table.
InitTransform ==
    WarpInit /\ DetectIdle /\ ExtractIdle /\ OpennessIdle /\ ThreadInit /\ PortIdle
        /\ TransformInit /\ RestIdle

SpecTransform == InitTransform /\ [][TransformNext]_vars

\* The warp engine on the end-to-end scenario.
SpecScenario == InitWarp /\ [][ScenarioNext]_vars

\* create_viseme_sequence, for every text and frame rate.
SpecSequence == InitWarp /\ [][SequenceNext]_vars

\* get_face_bounds, for every point list.
SpecBounds == InitWarp /\ [][BoundsNext]_vars

\* save_frames and create_video, for every frame list and output location.
SpecSerial == InitWarp /\ [][SerialNext]_vars

\* Landmark detection on videos.
SpecVideo == InitDetect /\ [][VideoNext]_vars

\* Extraction followed by the lip openness of the extracted face.
SpecUsage == InitExtract /\ [][UsageNext]_vars

\* The backend from import to serving requests.
InitApp ==
    WarpInit /\ DetectIdle /\ ExtractIdle /\ OpennessIdle /\ ThreadInit /\ AppPortInit
        /\ TransformIdle /\ CallIdle /\ SessionIdle /\ AppIdle

SpecApp == InitApp /\ [][AppNext]_vars

\* The session memory of a MemoryManager.
InitSession ==
    WarpInit /\ DetectIdle /\ ExtractIdle /\ OpennessIdle /\ ThreadInit /\ PortIdle
        /\ TransformIdle /\ CallIdle /\ SessionInit /\ AppIdle

SpecSession == InitSession /\ [][SessionNext]_vars

\* The warp engine with repeated calls.
SpecRepeat == InitWarp /\ [][RepeatNext]_vars

\* The landmark detector.
SpecDetect == InitDetect /\ [][DetectNext]_vars

\* Group extraction, from every landmark count.
SpecExtract == InitExtract /\ [][ExtractNext]_vars

\* Lip openness, from every point list.
SpecOpenness == InitOpenness /\ [][OpennessNext]_vars

-----------------------------------------------------------------------------
(* Properties of warp_lips *)

\* A warp_lips call on a readable image has returned.
Readable == call # NoCall /\ call.image.exists /\ call.image.decodable

\* The pixels of the loaded image.
ImagePixels(image) ==
    [image |-> image.path, width |-> image.width, height |-> image.height,
     transform |-> "identity", src |-> <<>>, dst |-> <<>>]

\* What warp_lips returns for the held call with its viseme list replaced.
ResultFor(visemes) ==
    WarpLipsResult(viseme_shapes[call.self], call.image, visemes,
                   LandmarksArg(call.landmarks))

\* The frames warp_lips logged an error for.
FailedFrames == {errors[j].frame : j \in 1..Len(errors)} \ {0}

\* C1: for a readable image, any landmarks argument and any viseme sequence V,
\* warp_lips returns len(V) frames, each with the width and height of the image.
C1_FrameCountAndSize ==
    Readable =>
        /\ Len(frames) = Len(call.visemes)
        /\ \A k \in 1..Len(frames) :
              /\ frames[k].width = call.image.width
              /\ frames[k].height = call.image.height

C1_Witness ==
    /\ Readable
    /\ call.image = Banner
    /\ call.landmarks = [name |-> "lip_points", n |-> 4]
    /\ Len(call.visemes) = 2
    /\ Len(frames) = 2
    /\ frames[1].kind = "perspective"

\* C2: frame i is the frame warp_lips returns for the one-element list [V[i]];
\* permuting V permutes the frames the same way.
C2_FrameDependsOnOwnViseme ==
    Readable =>
        /\ Len(frames) = Len(call.visemes)
        /\ \A k \in 1..Len(frames) :
              Pixels(frames[k]) = Pixels(ResultFor(<<call.visemes[k]>>).frames[1])
        /\ \A p \in Permutations(1..Len(call.visemes)) :
              PixelsOf(ResultFor([k \in 1..Len(call.visemes) |-> call.visemes[p[k]]]).frames)
                  = [k \in 1..Len(call.visemes) |-> Pixels(frames[p[k]])]

C2_Witness ==
    /\ Readable
    /\ call.visemes = <<"A", "m">>
    /\ call.landmarks = [name |-> "None", n |-> 0]
    /\ Len(frames) = 2
    /\ Pixels(frames[1]) # Pixels(frames[2])

\* C3: a second warp_lips call with the same image, visemes and landmarks returns
\* the same pixels as the first, whatever operations ran in between.
C3_RepeatedCallSamePixels ==
    (call # NoCall /\ prev_frames # NoPrev) =>
        PixelsOf(frames) = PixelsOf(prev_frames.frames)

C3_Witness ==
    /\ Readable
    /\ prev_frames # NoPrev
    /\ prev_frames.between
    /\ _warping # None
    /\ call.self = "global"
    /\ call.visemes = <<"A">>
    /\ frames = prev_frames.frames
    /\ Len(frames) = 1
    /\ frames[1].kind = "perspective"

\* C4: a symbol whose upper-case form is no key of the shape table gets the frame
\* of "A", and logs nothing more than "A" does; the lower-case form of a table
\* symbol gets that symbol's frame.
C4_UnknownSymbolIsA ==
    Readable =>
        /\ Len(frames) = Len(call.visemes)
        /\ \A k \in 1..Len(frames) :
              LET v == call.visemes[k]
                  table == viseme_shapes[call.self]
              IN  v # NonStr =>
                     /\ Upper(v) \notin DOMAIN table =>
                           Pixels(frames[k]) = Pixels(ResultFor(<<"A">>).frames[1])
                     /\ (Upper(v) \in DOMAIN table /\ v # Upper(v)) =>
                           Pixels(frames[k]) = Pixels(ResultFor(<<Upper(v)>>).frames[1])
        /\ LET as_A == [k \in 1..Len(call.visemes) |->
                           IF call.visemes[k] = NonStr
                              \/ Upper(call.visemes[k]) \in DOMAIN viseme_shapes[call.self]
                           THEN call.visemes[k] ELSE "A"]
           IN  errors = ResultFor(as_A).errs

C4_Witness ==
    /\ Readable
    /\ call.visemes = <<"Z", "m">>
    /\ call.landmarks = [name |-> "None", n |-> 0]
    /\ errors = <<>>
    /\ Len(frames) = 2
    /\ frames[1] = ResultFor(<<"A">>).frames[1]
    /\ Pixels(frames[2]) # Pixels(frames[1])

\* C5: a frame whose warping raised is the unmodified source image, the call
\* still returns len(V) frames, and no other frame depends on the failed element.
C5_FailedFrameIsSource ==
    Readable =>
        /\ Len(frames) = Len(call.visemes)
        /\ \A i \in FailedFrames :
              /\ i \in 1..Len(frames)
              /\ Pixels(frames[i]) = ImagePixels(call.image)
              /\ \A s \in Symbols, j \in (1..Len(frames)) \ {i} :
                    Pixels(frames[j])
                        = Pixels(ResultFor([call.visemes EXCEPT ![i] = s]).frames[j])

C5_Witness ==
    /\ Readable
    /\ call.visemes = <<"A", NonStr>>
    /\ call.landmarks = [name |-> "lip_points", n |-> 4]
    /\ FailedFrames = {2}
    /\ Len(frames) = 2
    /\ frames[2].kind = "source"
    /\ frames[1].kind = "perspective"
    /\ Pixels(frames[1]) # ImagePixels(call.image)

\* C6: with 1 or 2 lip points in the first face, each frame is the frame the
\* default-region warp produces for the same image and viseme.
C6_ShortLipListUsesDefaultRegion ==
    (Readable /\ call.landmarks.name = "lip_points" /\ call.landmarks.n < 3) =>
        /\ Len(frames) = Len(call.visemes)
        /\ \A k \in 1..Len(frames) :
              call.visemes[k] # NonStr =>
                 Pixels(frames[k])
                     = Pixels(WarpDefaultRegion(call.image,
                          VisemeParams(viseme_shapes[call.self], call.visemes[k])).frame)

\* The (x, y) part of the extractor's (x, y, z) triples.
XY(points) == [k \in 1..Len(points) |-> <<points[k][1], points[k][2]>>]

\* The perspective warp that maps the first 4 lip points to their viseme-scaled
\* positions.
GuidedFrame(image, viseme_params, points) ==
    WarpPerspective(image, Take(AsFloat(points), 4),
                    Take(ApplyVisemeTransform(points, viseme_params).points, 4),
                    <<image.width, image.height>>)

\* C7: with the landmark list the extractor returns (20 or more (x, y, z) lip
\* points), each frame is the image warped by the perspective transform of the
\* first 4 lip points to their viseme-scaled positions.
C7_ExtractorLandmarksGuideWarp ==
    (Readable /\ call.landmarks.name = "detected") =>
        /\ Len(AllLip(DetectedPortraitFace)) >= 20
        /\ Len(frames) = Len(call.visemes)
        /\ \A k \in 1..Len(frames) :
              call.visemes[k] # NonStr =>
                 Pixels(frames[k])
                     = Pixels(GuidedFrame(call.image,
                          VisemeParams(viseme_shapes[call.self], call.visemes[k]),
                          XY(AllLip(DetectedPortraitFace))))

-----------------------------------------------------------------------------
(* Properties of the landmark extractor *)

\* C8: detect_landmarks and detect_landmarks_from_array never raise; they return
\* an empty list when the face model is unavailable (on every call, the model is
\* never initialised later), when the file is missing or undecodable, and when
\* no face is found.
C8_DetectionFailsSoft ==
    /\ (face_mesh # Unbuilt /\ ~mesh_initialized) => face_mesh = None
    /\ detected # NoDetection =>
          /\ ~detected.out.raised
          /\ ~mesh_initialized => detected.out.value = <<>>
          /\ (detected.op = "detect_landmarks"
                /\ (~detected.arg.exists \/ ~detected.arg.decodable)) =>
                detected.out.value = <<>>
          /\ (detected.op = "detect_landmarks_from_array" /\ ~detected.arg.pixels) =>
                detected.out.value = <<>>
          /\ detected.arg.faces = 0 => detected.out.value = <<>>

C8_Witness ==
    /\ detected # NoDetection
    /\ MEDIAPIPE_AVAILABLE
    /\ ~mesh_initialized
    /\ face_mesh = None
    /\ detect_calls >= 2
    /\ detected.op = "detect_landmarks"
    /\ detected.arg.decodable
    /\ detected.arg.faces = 1
    /\ ~detected.out.raised
    /\ detected.out.value = <<>>

\* The entries of an index table that are below n, in table order.
RECURSIVE Below(_, _)
Below(table, n) ==
    IF table = <<>> THEN <<>>
    ELSE (IF Head(table) < n THEN <<Head(table)>> ELSE <<>>) \o Below(Tail(table), n)

\* The landmarks at the given indices (from 0) of a landmark list.
At(landmarks, indices) == [k \in 1..Len(indices) |-> landmarks[indices[k] + 1]]

\* C9: for a landmark list of any length n >= 0 the extraction of the lip, eye
\* and eyebrow groups does not fail, and each group holds exactly the landmarks
\* at the indices of its table that are < n, in table order.
C9_GroupsAreTableEntriesInRange ==
    extracted.done =>
        /\ DOMAIN extracted.dict # {}
        /\ extracted.dict.landmark_count = raw_count
        /\ Len(extracted.dict.all_landmarks) = raw_count
        /\ LET all == extracted.dict.all_landmarks
               lip == extracted.dict.lip_landmarks
               eye == extracted.dict.eye_landmarks
               brow == extracted.dict.eyebrow_landmarks
           IN  /\ lip.all_lip = At(all, Below(lip_indices, raw_count))
               /\ eye.left_eye = At(all, Below(left_eye_indices, raw_count))
               /\ eye.right_eye = At(all, Below(right_eye_indices, raw_count))
               /\ brow.left_eyebrow = At(all, Below(left_eyebrow_indices, raw_count))
               /\ brow.right_eyebrow = At(all, Below(right_eyebrow_indices, raw_count))

C9_Witness ==
    /\ extracted.done
    /\ raw_count = 400
    /\ Len(extracted.dict.lip_landmarks.all_lip) = 21
    /\ Len(extracted.dict.eye_landmarks.left_eye) = 15
    /\ Len(extracted.dict.eyebrow_landmarks.left_eyebrow) = 13
    /\ Len(extracted.dict.eyebrow_landmarks.right_eyebrow) = 19

\* y1 + ... + y6 of the six points of a list that start at position first.
SixY(points, first) ==
    points[first][2] + points[first + 1][2] + points[first + 2][2]
        + points[first + 3][2] + points[first + 4][2] + points[first + 5][2]

\* C10: calculate_lip_openness returns 0.0 for fewer than 12 points, and for 12
\* or more min(|mean y of points 0..5 - mean y of points 6..11| / 50, 1), which
\* lies in [0, 1].
C10_LipOpenness ==
    lip_openness # NotComputed =>
        /\ Len(lip_input) < 12 => lip_openness = <<0, 1>>
        /\ Len(lip_input) >= 12 =>
              LET d == Abs(SixY(lip_input, 1) - SixY(lip_input, 7))
              IN  /\ lip_openness[2] > 0
                  /\ lip_openness[1] * 300 = lip_openness[2] * Min(d, 300)
                  /\ 0 <= lip_openness[1]
                  /\ lip_openness[1] <= lip_openness[2]

C10_Witness ==
    /\ lip_openness = <<1, 3>>
    /\ Len(lip_input) = 13
    /\ SixY(lip_input, 1) = 200
    /\ SixY(lip_input, 7) = 300

-----------------------------------------------------------------------------
(* Properties of the frame buffers *)

\* Two frames are one buffer when both are the loaded image itself; the output
\* of a cv2 warp is an allocation of its own.
SameBuffer(f, g) == f.buf = "image" /\ g.buf = "image"

\* C11: within one warp_lips call every returned frame is a buffer of its own:
\* none is the buffer of the loaded source image and no two frames are the same
\* buffer, frames of a failure fallback included.
C11_FramesOwnBuffers ==
    Readable =>
        /\ \A k \in 1..Len(frames) : frames[k].buf # "image"
        /\ \A i, j \in 1..Len(frames) :
              i # j => ~SameBuffer(frames[i], frames[j])

-----------------------------------------------------------------------------
(* Properties of the failure paths of the warp engine *)

\* C12: when the image path does not exist or the file cannot be decoded,
\* warp_lips logs the problem and returns an empty frame list for every viseme
\* sequence, without raising and with no partial frames.
C12_UnreadableImageNoFrames ==
    (call # NoCall /\ ~(call.image.exists /\ call.image.decodable)) =>
        /\ frames = <<>>
        /\ errors = <<[frame |-> 0, at |-> "warp_lips"]>>
        /\ ~raised

C12_Witness ==
    /\ call # NoCall
    /\ call.image = CorruptFile
    /\ call.visemes = <<"A", "m">>
    /\ call.landmarks = [name |-> "lip_points", n |-> 4]
    /\ frames = <<>>
    /\ Len(errors) = 1

\* C13: no public operation of the warp engine (warp_lips,
\* create_viseme_sequence, save_frames, create_video) raises to its caller,
\* whatever the argument values.
C13_PublicOperationsNeverRaise == ~raised

-----------------------------------------------------------------------------
(* Properties of the global instances *)

\* C14: when several threads call get_landmark_detector() or get_warping()
\* concurrently before the global instance exists, exactly one instance is
\* constructed and every caller receives that same instance.
C14_OneInstanceForAllCallers ==
    \A g \in Getters :
        /\ Cardinality(built[g]) <= 1
        /\ Cardinality(returned[g]) <= 1

-----------------------------------------------------------------------------
(* Properties of PortManager *)

\* The port find_available_port was asked to start from.
Asked == IF port_call.arg.type = "NoneType" THEN 5000 ELSE port_call.arg.n

\* The available ports of 5000..5100 other than p.
Alternatives(p) == {q \in 5000..5100 : q # p /\ IsPortAvailable(q)}

Lowest(S) == CHOOSE q \in S : \A r \in S : q <= r

\* C15 as stated: find_available_port(p) returns p when p is available; when p
\* is busy it returns a port other than p, the lowest available port of
\* 5000..5100 other than p, or an OS-assigned port when that range has none.
C15_ReturnsAvailablePort ==
    port_call.op = "find_available_port" =>
        /\ ~port_call.out.raised
        /\ IsPortAvailable(Asked) => port_call.out.value = Asked
        /\ ~IsPortAvailable(Asked) =>
              /\ port_call.out.value # Asked
              /\ Alternatives(Asked) # {} =>
                    port_call.out.value = Lowest(Alternatives(Asked))
              /\ Alternatives(Asked) = {} =>
                    /\ port_call.out.value \notin 5000..5100
                    /\ IsPortAvailable(port_call.out.value)

\* C15, amended: as above, and when p is busy, 5000..5100 has no other available
\* port and the system assigns none, find_available_port raises RuntimeError.
C15_ReturnsAvailablePortOrRaises ==
    port_call.op = "find_available_port" =>
        /\ IsPortAvailable(Asked) => port_call.out = Ret(Asked)
        /\ (~IsPortAvailable(Asked) /\ Alternatives(Asked) # {}) =>
              /\ port_call.out = Ret(Lowest(Alternatives(Asked)))
              /\ port_call.out.value # Asked
        /\ (~IsPortAvailable(Asked) /\ Alternatives(Asked) = {}) =>
              IF os_port.type = "int"
              THEN /\ port_call.out = Ret(os_port.n)
                   /\ port_call.out.value # Asked
                   /\ IsPortAvailable(port_call.out.value)
              ELSE port_call.out.raised

C15_Witness ==
    /\ port_call.op = "find_available_port"
    /\ port_call.arg = PyInt(5100)
    /\ listening = (5000..5100) \ {5050}
    /\ port_call.out = Ret(5050)

\* C16: after save_port_to_config(p) returned True, get_configured_port()
\* returns p, whatever config.json held before; with config.json absent or
\* unreadable get_configured_port() returns the default port 5000.
C16_SavedPortIsConfiguredPort ==
    /\ (port_call.op = "save_port_to_config" /\ port_call.out = TRUE) =>
          GetConfiguredPortResult = port_call.arg
    /\ config_file.kind \in {"absent", "corrupt"} => GetConfiguredPortResult = PyInt(5000)
    /\ (port_call.op = "get_configured_port" /\ config_file.kind \in {"absent", "corrupt"}) =>
          port_call.out = PyInt(5000)

C16_Witness ==
    /\ port_call.op = "save_port_to_config"
    /\ port_call.out = TRUE
    /\ port_call.arg = PyInt(5007)
    /\ config_file = JsonObject([backend_port |-> Str(5007), model |-> Str(7)])

\* C17: read_port_file returns the port of the most recent create_port_file, and
\* None before any create and after a cleanup; get_backend_url() without a port
\* uses the port file's port in preference to the configured port.
C17_PortFileHoldsLastCreatedPort ==
    /\ ReadPortFileResult = created
    /\ port_call.op = "read_port_file" => port_call.out = created
    /\ (port_call.op = "get_backend_url" /\ port_call.arg = PyNone
           /\ created.type = "int") =>
          port_call.out = [scheme |-> "http", host |-> "localhost",
                           port |-> Str(created.n)]

C17_Witness ==
    /\ port_call.op = "get_backend_url"
    /\ port_call.arg = PyNone
    /\ created = PyInt(5007)
    /\ config_file = JsonObject([backend_port |-> Str(5001)])
    /\ port_call.out.port = <<"5", "0", "0", "7">>

-----------------------------------------------------------------------------
(* Properties of the landmark-guided warp *)

\* A warp_lips call with n hand-made (x, y) lip points in its first face.
GuidedBy(n) == Readable /\ call.landmarks = [name |-> "lip_points", n |-> n]

First(s, k) == [i \in 1..k |-> s[i]]

\* C18: with n two-dimensional lip points, for n >= 4 the image is warped by the
\* perspective transform of the first 4 points to their first 4 transformed
\* points (the transform of all n points, so later points count through the
\* centroid only); for n = 3 by the affine transform of the 3 point pairs.
C18_GuidedWarpUsesFirstPoints ==
    \A n \in 3..MaxLipPoints :
        GuidedBy(n) =>
            /\ Len(frames) = Len(call.visemes)
            /\ \A k \in 1..Len(frames) :
                  call.visemes[k] # NonStr =>
                     LET points == LipPoints(n)
                         moved == ApplyVisemeTransform(points,
                                      VisemeParams(viseme_shapes[call.self],
                                                   call.visemes[k])).points
                         m == IF n >= 4 THEN 4 ELSE 3
                     IN  /\ frames[k].kind = IF n >= 4 THEN "perspective" ELSE "affine"
                         /\ frames[k].image = call.image.path
                         /\ frames[k].src = First(AsFloat(points), m)
                         /\ frames[k].dst = First(moved, m)
                         /\ Len(moved) = n

C18_Witness ==
    /\ GuidedBy(5)
    /\ call.visemes = <<"A">>
    /\ Len(frames) = 1
    /\ frames[1].kind = "perspective"
    /\ Len(frames[1].src) = 4
    /\ frames[1].src # frames[1].dst
    /\ frames[1].dst
          # First(ApplyVisemeTransform(LipPoints(4), viseme_shapes[call.self]["A"]).points, 4)

\* |a - sy/n| <= |b - sy/n| for rationals a and b (reduced pairs).
NoFurtherFrom(a, b, sy, n) ==
    Abs(a[1] * n - sy * a[2]) * b[2] <= Abs(b[1] * n - sy * b[2]) * a[2]

\* C19: every table viseme with openness > 0.5 moves each lip point vertically
\* away from the centroid (|y' - cy| >= |y - cy|), and every table viseme with
\* openness <= 0.5 moves each lip point vertically toward it
\* (|y' - cy| <= |y - cy|).
C19_OpennessSetsVerticalDirection ==
    transformed_points # NotTransformed =>
        LET n == Len(points_arg)
            sy == SumCoord(points_arg, 2, n)
        IN  \A k \in 1..n :
               LET y == <<points_arg[k][2], 1>>
                   y_moved == transformed_points[k][2]
               IN  IF LoadVisemeShapes[viseme_arg].lip_openness > 5
                   THEN NoFurtherFrom(y, y_moved, sy, n)
                   ELSE NoFurtherFrom(y_moved, y, sy, n)

\* The landmarks argument of the held call.
GivenLandmarks == LandmarksArg(call.landmarks)

\* The lip points of the first face of a landmarks argument, <<>> when it has none.
FirstFaceLip(landmarks) ==
    IF landmarks.given /\ Len(landmarks.faces) > 0 THEN AllLip(landmarks.faces[1])
    ELSE <<>>

\* C20: the frame depends on the landmarks argument only through the lip points
\* of the first face: with landmarks absent or empty, or a first face without
\* lip points, it is the default-region warp; otherwise it is the landmark-guided
\* warp of the first face, whatever faces follow.
C20_OnlyFirstFaceLipPointsCount ==
    Readable =>
        /\ Len(frames) = Len(call.visemes)
        /\ \A k \in 1..Len(frames) :
              call.visemes[k] # NonStr =>
                 LET viseme_params == VisemeParams(viseme_shapes[call.self], call.visemes[k])
                     lip == FirstFaceLip(GivenLandmarks)
                 IN  IF lip = <<>>
                     THEN frames[k] = WarpDefaultRegion(call.image, viseme_params).frame
                     ELSE frames[k] = WarpWithLandmarks(call.image, viseme_params,
                                                        FaceWithLip(lip)).frame

C20_Witness ==
    /\ Readable
    /\ call.landmarks = [name |-> "two_faces", n |-> 0]
    /\ Len(GivenLandmarks.faces) = 2
    /\ AllLip(GivenLandmarks.faces[1]) # AllLip(GivenLandmarks.faces[2])
    /\ call.visemes = <<"A">>
    /\ Len(frames) = 1
    /\ frames[1].kind = "perspective"
    /\ frames[1].src = AsFloat(LipPoints(4))

-----------------------------------------------------------------------------
(* Properties of the default-region warp *)

\* The corners of the rectangle centred at (cx, cy) that reaches half_w to either
\* side and half_h up and down.
Rectangle(cx, cy, half_w, half_h) ==
    << <<cx - half_w, cy - half_h>>, <<cx + half_w, cy - half_h>>,
       <<cx + half_w, cy + half_h>>, <<cx - half_w, cy + half_h>> >>

\* Half the width and height of the destination rectangle of each vowel on a
\* 400 x 400 image: the 66 x 50 region scaled by the viseme's factors, with the
\* (1 + openness) boost for A and O.
VowelHalfExtent ==
    [A |-> <<39, 67>>, E |-> <<36, 30>>, I |-> <<42, 27>>, O |-> <<29, 52>>,
     U |-> <<26, 35>>]

\* C21: a 400 x 400 image warped with no landmarks for the visemes
\* [A, E, I, O, U, A] gives 6 frames; each is the perspective warp of the region
\* centred at (200, 300), 66 wide and 50 high, to that region scaled by the
\* viseme's factors (boosted by 1 + openness above 0.5), which differs from the
\* source region in every frame; frames 0 and 3 have different destination
\* rectangles and frames 0 and 5 are identical.
C21_DefaultRegionScenario ==
    (Readable /\ call.image.width = 400 /\ call.image.height = 400
        /\ ~HasLandmarks(GivenLandmarks)) =>
        /\ Len(frames) = Len(call.visemes)
        /\ \A k \in 1..Len(frames) :
              LET half == VowelHalfExtent[call.visemes[k]]
              IN  /\ frames[k].kind = "perspective"
                  /\ frames[k].src = AsFloat(Rectangle(200, 300, 33, 25))
                  /\ frames[k].dst = AsFloat(Rectangle(200, 300, half[1], half[2]))
                  /\ frames[k].dst # frames[k].src
                  /\ Pixels(frames[k]) # ImagePixels(call.image)
        /\ call.visemes = ScenarioVisemes =>
              /\ Len(frames) = 6
              /\ frames[1].dst # frames[4].dst
              /\ Pixels(frames[1]) = Pixels(frames[6])
              /\ \A k \in 1..6 : frames[k].width = 400 /\ frames[k].height = 400

C21_Witness ==
    /\ Readable
    /\ call.image = Portrait
    /\ call.landmarks = [name |-> "None", n |-> 0]
    /\ call.visemes = ScenarioVisemes
    /\ Len(frames) = 6
    /\ frames[1].dst # frames[4].dst
    /\ frames[1] = frames[6]

-----------------------------------------------------------------------------
(* Properties of create_viseme_sequence *)

\* A create_viseme_sequence call with a str text and an int frame rate has returned.
SequenceOfText ==
    /\ sequence_call.op = "create_viseme_sequence"
    /\ sequence_call.text.type = "str"
    /\ sequence_call.frame_rate.type = "int"

\* The viseme of a letter: its table entry, "A" for a letter without one.
VisemeOfLetter(c) ==
    IF Lower(c) \in DOMAIN phoneme_to_viseme THEN phoneme_to_viseme[Lower(c)] ELSE "A"

\* The copies a character of the text is to get.
CopiesFor(c, frame_rate) ==
    IF IsAlpha(c) THEN Max(1, frame_rate \div 10) ELSE frame_rate \div 20

\* The copies the characters before position k get, none for a negative number.
RECURSIVE CopiesBefore(_, _, _)
CopiesBefore(chars, frame_rate, k) ==
    IF k <= 1 THEN 0
    ELSE CopiesBefore(chars, frame_rate, k - 1)
            + Max(0, CopiesFor(chars[k - 1], frame_rate))

AlphaCount(chars) == Cardinality({k \in 1..Len(chars) : IsAlpha(chars[k])})

\* The result holds, in text order, the copies of each character's viseme.
EmitsCopiesInTextOrder ==
    LET chars == sequence_call.text.chars
        frame_rate == sequence_call.frame_rate.n
        out == sequence_call.out
    IN  /\ ~out.raised
        /\ Len(out.value) = CopiesBefore(chars, frame_rate, Len(chars) + 1)
        /\ \A k \in 1..Len(chars) :
              \A j \in 1..CopiesFor(chars[k], frame_rate) :
                 out.value[CopiesBefore(chars, frame_rate, k) + j]
                     = IF IsAlpha(chars[k]) THEN VisemeOfLetter(chars[k]) ELSE "A"

\* C22 as stated: create_viseme_sequence emits, in text order, max(1, frame_rate
\* div 10) copies of the mapped viseme for each alphabetic character and
\* frame_rate div 20 copies of "A" for each other character, so the result has
\* length alpha_count * max(1, frame_rate div 10)
\* + non_alpha_count * (frame_rate div 20).
C22_SequenceLength ==
    SequenceOfText =>
        LET chars == sequence_call.text.chars
            frame_rate == sequence_call.frame_rate.n
        IN  /\ EmitsCopiesInTextOrder
            /\ Len(sequence_call.out.value)
                  = AlphaCount(chars) * Max(1, frame_rate \div 10)
                      + (Len(chars) - AlphaCount(chars)) * (frame_rate \div 20)

\* C22, amended: as above for a frame rate that is not negative; for a negative
\* frame rate the other characters emit nothing, so the length is
\* alpha_count * max(1, frame_rate div 10)
\* + non_alpha_count * max(0, frame_rate div 20).
C22_SequenceLengthNoNegativeCopies ==
    SequenceOfText =>
        LET chars == sequence_call.text.chars
            frame_rate == sequence_call.frame_rate.n
        IN  /\ EmitsCopiesInTextOrder
            /\ Len(sequence_call.out.value)
                  = AlphaCount(chars) * Max(1, frame_rate \div 10)
                      + (Len(chars) - AlphaCount(chars)) * Max(0, frame_rate \div 20)

C22_Witness ==
    /\ SequenceOfText
    /\ sequence_call.text = PyStr(<<"Z", "o", "e", " ", "2">>)
    /\ sequence_call.frame_rate = PyInt(5)
    /\ sequence_call.out = Ret(<<"A", "O", "E">>)

-----------------------------------------------------------------------------
(* Properties of the landmark groups *)

\* The number of points in each group of an extracted dict.
GroupSizes(dict) ==
    [all_lip |-> Len(dict.lip_landmarks.all_lip),
     upper_lip |-> Len(dict.lip_landmarks.upper_lip),
     lower_lip |-> Len(dict.lip_landmarks.lower_lip),
     left_eye |-> Len(dict.eye_landmarks.left_eye),
     right_eye |-> Len(dict.eye_landmarks.right_eye),
     left_eyebrow |-> Len(dict.eyebrow_landmarks.left_eyebrow),
     right_eyebrow |-> Len(dict.eyebrow_landmarks.right_eyebrow)]

\* The sizes with every index of every table in range.
FullGroupSizes ==
    [all_lip |-> 23, upper_lip |-> 12, lower_lip |-> 11, left_eye |-> 16,
     right_eye |-> 16, left_eyebrow |-> 19, right_eyebrow |-> 19]

\* C23 as stated: a landmark list of 468 points gives 23 lip points, 12 in
\* upper_lip and 11 in lower_lip, 16 points for each eye and 19 points for each
\* eyebrow.
C23_GroupSizesOfFullList ==
    (extracted.done /\ raw_count = 468) =>
        /\ DOMAIN extracted.dict # {}
        /\ GroupSizes(extracted.dict) = FullGroupSizes

\* C23, amended: a landmark list of 468 points gives 23 lip points (12 upper, 11
\* lower), 16 points for each eye, 19 for the right eyebrow and 18 for the left
\* eyebrow, whose table holds the index 469; the 478 points of the refined model
\* the detector is built with give 19 for each eyebrow.
C23_GroupSizesOf468And478 ==
    /\ (extracted.done /\ raw_count = 468) =>
          /\ DOMAIN extracted.dict # {}
          /\ GroupSizes(extracted.dict) = [FullGroupSizes EXCEPT !.left_eyebrow = 18]
    /\ (extracted.done /\ raw_count = 478) =>
          /\ DOMAIN extracted.dict # {}
          /\ GroupSizes(extracted.dict) = FullGroupSizes

C23_Witness ==
    /\ extracted.done
    /\ raw_count = 468
    /\ DOMAIN extracted.dict # {}
    /\ Len(extracted.dict.all_landmarks) = 468
    /\ Len(extracted.dict.eyebrow_landmarks.left_eyebrow) = 18
    /\ Len(extracted.dict.eyebrow_landmarks.right_eyebrow) = 19

-----------------------------------------------------------------------------
(* Properties of get_face_bounds *)

\* A get_face_bounds call on a non-empty list of points has returned.
BoundsOfPoints ==
    /\ bounds_call.op = "get_face_bounds"
    /\ bounds_call.arg.type = "list"
    /\ bounds_call.arg.rows # <<>>
    /\ \A k \in 1..Len(bounds_call.arg.rows) : Len(bounds_call.arg.rows[k]) >= 2

\* The coordinates c of the points of the call.
CoordsOfCall(c) == {bounds_call.arg.rows[k][c] : k \in 1..Len(bounds_call.arg.rows)}

\* lo and hi are the least and the greatest element of S.
LeastAndGreatest(S, lo, hi) ==
    /\ lo \in S /\ hi \in S
    /\ \A v \in S : lo <= v /\ v <= hi

\* get_face_bounds does not raise, gives the empty result for an empty list,
\* and for points the least and greatest x and y with their differences.
BoundsAreMinAndMax ==
    /\ bounds_call.op = "get_face_bounds" => ~bounds_call.out.raised
    /\ (bounds_call.op = "get_face_bounds" /\ bounds_call.arg = PyList(<<>>)) =>
          DOMAIN bounds_call.out.value = {}
    /\ BoundsOfPoints =>
          LET box == bounds_call.out.value
          IN  /\ DOMAIN box # {}
              /\ LeastAndGreatest(CoordsOfCall(1), box.x_min, box.x_max)
              /\ LeastAndGreatest(CoordsOfCall(2), box.y_min, box.y_max)
              /\ box.width = box.x_max - box.x_min /\ box.width >= 0
              /\ box.height = box.y_max - box.y_min /\ box.height >= 0

\* The center of the result lies inside its box.
CenterInside(box) ==
    /\ box.x_min <= box.center[1] /\ box.center[1] <= box.x_max
    /\ box.y_min <= box.center[2] /\ box.center[2] <= box.y_max

\* C24 as stated: get_face_bounds returns an empty result for an empty list and
\* never raises; for a non-empty list it gives the minimum and maximum of x and
\* y, width and height that are not negative, and a center inside the box.
C24_BoundsAndCenterInside ==
    /\ BoundsAreMinAndMax
    /\ BoundsOfPoints => CenterInside(bounds_call.out.value)

\* C24, amended: as above, with the center inside the box when the coordinates
\* are whole numbers; in general the center is the midpoint rounded down to a
\* whole number, which for fractional coordinates can lie below the box.
C24_BoundsAndCenterOfWholePoints ==
    /\ BoundsAreMinAndMax
    /\ BoundsOfPoints =>
          LET box == bounds_call.out.value
          IN  /\ \A c \in 1..2 :
                    LET lo == IF c = 1 THEN box.x_min ELSE box.y_min
                        hi == IF c = 1 THEN box.x_max ELSE box.y_max
                    IN  /\ box.center[c] % 2 = 0
                        /\ 2 * box.center[c] <= lo + hi
                        /\ lo + hi < 2 * box.center[c] + 4
              /\ (\A c \in 1..2 : \A v \in CoordsOfCall(c) : v % 2 = 0) => CenterInside(box)

C24_Witness ==
    /\ BoundsOfPoints
    /\ bounds_call.arg = PyList(<< <<Whole(-1), Whole(2)>>, <<Whole(2), Whole(-1)>> >>)
    /\ bounds_call.out.value.center = <<Whole(0), Whole(0)>>
    /\ bounds_call.out.value.width = Whole(3)

-----------------------------------------------------------------------------
(* Properties of save_frames and create_video *)

\* The output location of the call can take the files.
LocationWritable ==
    /\ serial_call.location.type = "str"
    /\ serial_call.location.creatable
    /\ serial_call.location.writable

\* C25: save_frames returns the paths of the files it wrote, one per frame in
\* frame order; with an empty frame list or an output location that cannot be
\* written save_frames returns an empty list and create_video returns False.
C25_SerializationReportsFailure ==
    /\ serial_call.op = "save_frames" =>
          /\ \A k \in 1..Len(serial_call.out) : serial_call.out[k] \in serial_call.written
          /\ serial_call.out # <<>> =>
                /\ Len(serial_call.out) = Len(serial_call.frames)
                /\ \A k \in 1..Len(serial_call.out) : serial_call.out[k].index = k - 1
          /\ (serial_call.frames = <<>> \/ ~LocationWritable) => serial_call.out = <<>>
    /\ (serial_call.op = "create_video"
           /\ (serial_call.frames = <<>> \/ ~LocationWritable)) =>
          serial_call.out = FALSE

-----------------------------------------------------------------------------
(* Properties of detect_landmarks_video *)

\* What single-frame detection returns for frame k (from 0) of the video of the
\* call, on the detector as it is.
DetectionOfFrame(k) ==
    DetectLandmarksFromArrayResult(face_mesh, max_num_faces,
                                   video_call.arg.frames[k + 1]).value

-----------------------------------------------------------------------------
(* Properties of the session memory *)

\* The last k elements of a sequence, all of them when it has fewer.
LastOf(s, k) == IF Len(s) <= k THEN s ELSE SubSeq(s, Len(s) - k + 1, Len(s))

\* C27: after any add_to_session and clear_session calls session memory holds at
\* most max_session_history entries, and they are the most recently added ones:
\* an add that overflows the cap evicts the oldest entry, never the one just
\* added.
C27_SessionKeepsMostRecent ==
    /\ Len(session_memory) <= max_session_history
    /\ [k \in 1..Len(session_memory) |-> session_memory[k].id]
          = LastOf(added, max_session_history)
    /\ added # <<>> =>
          \E k \in 1..Len(session_memory) : session_memory[k].id = added[Len(added)]

C27_Witness ==
    /\ max_session_history = 2
    /\ Len(added) = 4
    /\ Len(session_memory) = 2
    /\ session_memory[1].id = 3 /\ session_memory[2].id = 4
    /\ session_memory[1].timestamp = session_memory[2].timestamp


-----------------------------------------------------------------------------
(* Properties of the lip openness of an extracted face *)

Elements(s) == {s[k] : k \in 1..Len(s)}

\* C28: when calculate_lip_openness is applied to the all_lip list extracted
\* from a full landmark list, the six points it averages as the upper group all
\* belong to the extractor's upper_lip group and the six it averages as the
\* lower group all belong to the extractor's lower_lip group.
C28_OpennessGroupsAreLipGroups ==
    (raw_count >= 468 /\ extracted.done /\ extracted.dict # EmptyDict
        /\ lip_openness # NotComputed) =>
        LET lips == extracted.dict.lip_landmarks
            averaged == OpennessGroups(lip_input)
        IN  /\ lip_input = lips.all_lip
            /\ Elements(averaged.upper_lip) \subseteq Elements(lips.upper_lip)
            /\ Elements(averaged.lower_lip) \subseteq Elements(lips.lower_lip)

\* The part of it that holds: both averaged groups are halves of the
\* extractor's upper_lip group.
BothGroupsFromUpperLip ==
    (raw_count >= 468 /\ extracted.done /\ extracted.dict # EmptyDict
        /\ lip_openness # NotComputed) =>
        LET lips == extracted.dict.lip_landmarks
            averaged == OpennessGroups(lip_input)
        IN  /\ lip_input = lips.all_lip
            /\ averaged.upper_lip = SubSeq(lips.upper_lip, 1, 6)
            /\ averaged.lower_lip = SubSeq(lips.upper_lip, 7, 12)


-----------------------------------------------------------------------------
(* Properties of the symbols of a generated sequence *)

\* C29: every symbol of a sequence create_viseme_sequence returns, for any text
\* and frame rate and for the error-fallback sequence too, is a key of the
\* viseme shape table, so warping it never takes the unknown-symbol default.
C29_GeneratedSymbolsAreTableKeys ==
    (sequence_call.op = "create_viseme_sequence" /\ ~sequence_call.out.raised) =>
        \A k \in 1..Len(sequence_call.out.value) :
            LET symbol == sequence_call.out.value[k]
            IN  /\ symbol \in DOMAIN LoadVisemeShapes
                /\ Upper(symbol) \in DOMAIN LoadVisemeShapes
                /\ VisemeParams(LoadVisemeShapes, symbol) = LoadVisemeShapes[symbol]

C29_Witness ==
    /\ sequence_call.op = "create_viseme_sequence"
    /\ sequence_call.text = PyStr(Pangram)
    /\ sequence_call.frame_rate = PyInt(20)
    /\ ~sequence_call.out.raised
    /\ Len(sequence_call.out.value) > Len(Pangram)
    /\ \E k \in 1..Len(sequence_call.out.value) : sequence_call.out.value[k] = "Y"


-----------------------------------------------------------------------------
(* Properties of the backend port *)

\* The backend_port entry of a configuration, when it has one.
NoEntry == [type |-> "missing"]

BackendPortOf(cfg) ==
    IF cfg.kind = "object" /\ "backend_port" \in DOMAIN cfg.items
    THEN JsonLoad(cfg.items["backend_port"])
    ELSE NoEntry

\* C30: while the backend runs, the backend_port stored in config.json and the
\* backend_port served by /get_config both equal the port the backend was
\* started on, right after startup and after any /update_config requests
\* (config.json was absent or a JSON object when the backend was started).
C30_BackendPortStoredAndServed ==
    (app_state = "running" /\ app_config.kind = "object") =>
        /\ BackendPortOf(config_file) = backend_port
        /\ served.op = "get_config" => BackendPortOf(served.out) = backend_port

\* What does hold: startup on a config.json that is a JSON object stores the
\* port the backend runs on.
StartupStoresPort ==
    [][(Main /\ app_state' = "running" /\ config_file.kind = "object") =>
          BackendPortOf(config_file') = backend_port']_vars
====
